---- MODULE Spec2Model ----
(***************************************************************************)
(* A model of netbox-component-synchronization: the synchronization core   *)
(* (utils.py), the comparison views (views.py), the list-view actions      *)
(* mixin (actions.py), the querysets (views.py, component_registry.py,     *)
(* component_views.py), the comparison records (comparison.py) and the     *)
(* asynchronous bridge (async_utils.py).                                   *)
(*                                                                         *)
(* The host platform's persistence layer is modelled by two tables:        *)
(* components (device components of every kind) and templates (component  *)
(* templates of every kind).  A component carries the fields the code      *)
(* reads: id, kind (its table), device, name, type and module (whether     *)
(* module_id is set).  A template carries id, kind, device_type, name and  *)
(* type.                                                                   *)
(***************************************************************************)
EXTENDS Integers, Sequences, FiniteSets

\* ------------------------------------------------------------- bounds
\* Number of components the device tables hold before the first request.
MaxInitComponents == 2
\* Number of requests of one run.
MaxRequests == 1
\* Number of identifiers one single-item POST submits.
MaxSelected == 2
\* Length of each list of comparison records handed to the diff.
MaxLen == 2
\* Number of fields two compared records differ in.
MaxDiffer == 2
\* Number of values in a submitted identifier list.
MaxEntries == 2
\* Number of calls into the registry and the discovery in one process.
MaxCalls == 2
\* Number of times the settings are changed while the process runs.
MaxSettingsChanges == 1
\* Length of the lists of names handed to human_sorted.
MaxNames == 3
\* Largest value of a counter of the statistics a summary message is made of.
MaxCount == 2

\* ------------------------------------------------------------ domains
Devices == {1, 2}
\* The threads of the process that call into the registry and the discovery.
Callers == {1, 2}
\* The device the requests of a run name: device 1 (with or without a device
\* type, alone or in a virtual chassis as master or plain member).
RequestDevices == {1}
Names == {"a", "b"}
\* Natural order of the names (the host orders querysets by name).
NameOrder == <<"a", "b">>
\* "powerport" stands for every kind whose queryset is
\* device.<kind>s.all().exclude(module_id__isnull=False).
Kinds == {"interface", "powerport", "modulebay"}

TypesOf(k) ==
  IF k = "interface" THEN {"t", "lag"}
  ELSE IF k = "modulebay" THEN {"none"}
  ELSE {"t"}

OtherKind(k) == IF k = "powerport" THEN "modulebay" ELSE "powerport"

Rank(n) == CHOOSE i \in 1..Len(NameOrder) : NameOrder[i] = n

VARIABLES
  kind,             \* the kind the views of this run are bound to (Model)
  device_type,      \* Device.device_type: device -> "dt1" or "None"
  vc_master,        \* master of the virtual chassis holding all devices, 0: no chassis
  config,           \* PLUGINS_CONFIG["netbox_component_synchronization"]
  components,       \* rows of the component tables
  templates,        \* rows of the component template tables
  nextId,           \* next primary key of the component table
  requests,         \* number of requests served
  pre,              \* the component rows when the last request arrived
  last,             \* the last request and its response
  processor,        \* the ComponentProcessor of the request in flight and its tasks
  unified_components,  \* comparison records of the device's components
  unified_templates,   \* comparison records of the device type's templates
  comparison,       \* what the diff returned
  records,          \* two comparison records
  verdict,          \* what comparing and hashing the two records gave
  user,             \* the permissions request.user holds on the kind's model
  form,             \* a submitted identifier list and a queryset's identifiers
  parsed,           \* what parse_form_ids / filter_valid_ids returned
  instance,         \* a host record: a device component or a template
  built,            \* the comparison records the factories built from it
  settings,         \* PLUGINS_CONFIG: the auto-discovery settings
  dcim,             \* the host's device module as the app registry exposes it
  _discovery,       \* the global ComponentDiscovery instance
  COMPONENT_REGISTRY,  \* component_registry.COMPONENT_REGISTRY
  callers,          \* per thread: its call into the registry or the discovery
  answer,           \* what the last call that returned gave its caller
  trace,            \* the discovery passes completed so far
  sorting,          \* a list of names and what human_sorted returned for it
  summary           \* the statistics of a request and the message made of them

\* The variables of the identifier parsing, of the factories and of the
\* registry with its discovery.
ids_vars == <<form, parsed>>
factory_vars == <<instance, built>>
registry_vars == <<settings, dcim, _discovery, COMPONENT_REGISTRY, callers, answer, trace>>
text_vars == <<sorting, summary>>

\* The variables of the tables and the requests.
Tables ==
  <<kind, device_type, vc_master, config, components, templates, nextId, requests,
    pre, last, processor, user>>

vars == <<kind, device_type, vc_master, config, components, templates, nextId,
          requests, pre, last, processor, unified_components, unified_templates,
          comparison, records, verdict, user, ids_vars, factory_vars, registry_vars, text_vars>>

\* ------------------------------------------------------- host ordering
RECURSIVE OrderBy(_, _)
\* The members of S as a sequence in increasing key order.
OrderBy(S, key) ==
  IF S = {} THEN <<>>
  ELSE LET m == CHOOSE x \in S : \A y \in S : key[x] <= key[y]
       IN <<m>> \o OrderBy(S \ {m}, key)

\* Default ordering of a component queryset: ('device', '_name'), then pk.
ComponentOrder(S) ==
  OrderBy(S, [c \in S |-> c.device * 1000 + Rank(c.name) * 100 + c.id])

\* Default ordering of a template queryset: ('device_type', '_name'), then pk.
TemplateOrder(S) ==
  OrderBy(S, [t \in S |-> Rank(t.name) * 100 + t.id])

Range(s) == {s[i] : i \in 1..Len(s)}

\* ---------------------------------------------------------- querysets
\* Device.vc_interfaces(): the device's interfaces and, for the master of a
\* virtual chassis, those of the other members.
vc_interfaces(comps, d) ==
  {c \in comps : c.kind = "interface"
                 /\ (c.device = d \/ (vc_master = d /\ vc_master # 0))}

\* ModuleBay.level: a bay of an installed module is nested, a bay of the
\* device itself is at level 0.
level(c) == IF c.module THEN 1 ELSE 0

\* views.py 212-214 with the exclude on module_id left out.
get_components_qs_with_modules(comps, d, k) ==
  IF k = "interface"
  THEN {c \in vc_interfaces(comps, d) :
          c.type \notin config.exclude_interface_type_list}
  ELSE {c \in comps : c.kind = k /\ c.device = d}

\* views.py: <Kind>ComparisonView.get_components_qs
get_components_qs(comps, d, k) ==
  IF k = "interface"
  THEN {c \in vc_interfaces(comps, d) :
          ~c.module /\ c.type \notin config.exclude_interface_type_list}
  ELSE IF k = "modulebay"
  THEN {c \in comps : c.kind = k /\ c.device = d /\ level(c) = 0}
  ELSE {c \in comps : c.kind = k /\ c.device = d /\ ~c.module}

\* component_registry.py: get_component_queryset
get_component_queryset(comps, d, k) ==
  IF k = "interface"
  THEN LET qs == {c \in vc_interfaces(comps, d) : ~c.module}
           exclude_types == config.exclude_interface_type_list
       IN IF exclude_types # {} THEN {c \in qs : c.type \notin exclude_types} ELSE qs
  ELSE IF k = "modulebay"
  THEN {c \in comps : c.kind = k /\ c.device = d /\ level(c) = 0}
  ELSE {c \in comps : c.kind = k /\ c.device = d /\ ~c.module}

\* component_views.py: SyncEnabled<Kind>ListView.get_queryset
get_queryset(comps, d, k) ==
  IF k = "interface"
  THEN {c \in vc_interfaces(comps, d) :
          ~c.module /\ c.type \notin config.exclude_interface_type_list}
  ELSE IF k = "modulebay"
  THEN {c \in comps : c.kind = k /\ c.device = d /\ level(c) = 0}
  ELSE {c \in comps : c.kind = k /\ c.device = d /\ ~c.module}

\* views.py: BaseComponentComparisonView.get_templates_qs
get_templates_qs(tmpls, d, k) ==
  {t \in tmpls : t.kind = k /\ t.device_type = device_type[d]}

\* ------------------------------------------------- persistence layer
\* Another row of the same table and device already carries r's name.
NameTaken(comps, r) ==
  \E c \in comps : c.id # r.id /\ c.kind = r.kind
                   /\ c.device = r.device /\ c.name = r.name

\* Whether writing r introduces a name the host's uniqueness constraint on
\* (device, name) forbids: an INSERT, or an UPDATE that changes the name.
Introduces(comps, r) ==
  /\ NameTaken(comps, r)
  /\ \A c \in comps : c.id = r.id => c.name # r.name

RECURSIVE save_each(_, _, _, _)
\* Model.save() on news[i..] in order (UPDATE when the pk exists, INSERT
\* otherwise).  With reject, the first write the constraint forbids raises
\* IntegrityError; the writes before it stay.
save_each(comps, news, i, reject) ==
  IF i > Len(news) THEN [components |-> comps, n |-> 0, raised |-> FALSE]
  ELSE IF reject /\ Introduces(comps, news[i])
  THEN [components |-> comps, n |-> 0, raised |-> TRUE]
  ELSE LET saved == {c \in comps : c.id # news[i].id} \cup {news[i]}
           rest == save_each(saved, news, i + 1, reject)
       IN [rest EXCEPT !.n = rest.n + 1]

\* ObjectType.objects.bulk_create(news): one INSERT statement, all or nothing.
bulk_create(comps, news, reject) ==
  IF reject /\ (\/ \E i \in 1..Len(news) : NameTaken(comps, news[i])
                \/ \E i, j \in 1..Len(news) : i < j /\ NameTaken({news[i]}, news[j]))
  THEN [components |-> comps, n |-> 0, raised |-> TRUE]
  ELSE [components |-> comps \cup Range(news), n |-> Len(news), raised |-> FALSE]

\* queryset.delete(): the rows of the queryset, and their number.
delete(comps, rows) ==
  [components |-> comps \ rows, n |-> Cardinality(comps \cap rows)]

\* ------------------------------------------------ synchronization core
\* utils.py 218-223: tmp = ObjectType(); tmp.device = device; every key of
\* the template row except id is copied.
NewComponent(t, d, k, id) ==
  [id |-> id, kind |-> k, device |-> d, name |-> t.name, type |-> t.type,
   module |-> FALSE]

\* utils.py 207-208: the templates whose name no component of the queryset has.
templates_to_add(comps, tmpls, d, k) ==
  LET existing_component_names == {c.name : c \in get_components_qs(comps, d, k)}
  IN TemplateOrder({t \in get_templates_qs(tmpls, d, k) :
                      t.name \notin existing_component_names})

\* utils.py 210-231: create one component per template to add.
create_missing(comps, tmpls, d, k, id0, reject) ==
  LET to_add == templates_to_add(comps, tmpls, d, k)
      news == [i \in 1..Len(to_add) |-> NewComponent(to_add[i], d, k, id0 + i - 1)]
  IN IF k = "modulebay"
     THEN save_each(comps, news, 1, reject)
     ELSE bulk_create(comps, news, reject)

\* The identifiers a request submits in add_to_device, remove_from_device and
\* fix_name; a bulk action submits none.
NoSelection == [add |-> {}, remove |-> {}, fix |-> {}]

\* What a handler leaves behind: the component table, the template table (no
\* handler writes through ObjectTemplateType) and the flashed message.
Response(comps, lvl, msg, c, u, dl, f) ==
  [components |-> comps, templates |-> templates, level |-> lvl, message |-> msg,
   created |-> c, updated |-> u, deleted |-> dl, fixed |-> f, selected |-> NoSelection]

handle_bulk_add_missing(comps, tmpls, d, k, id0, reject) ==
  LET r == create_missing(comps, tmpls, d, k, id0, reject)
  IN IF r.raised
     THEN Response(r.components, "exception", "IntegrityError", r.n, 0, 0, 0)
     ELSE IF r.n > 0
     THEN Response(r.components, "success", "Added missing", r.n, 0, 0, 0)
     ELSE Response(r.components, "info", "No missing to add", 0, 0, 0, 0)

\* utils.py 271-272 with the exclude on the template names left out.
components_to_remove_all(comps, tmpls, d, k) ==
  get_components_qs(comps, d, k)

\* utils.py 271-272: the components of the queryset whose name no template has.
components_to_remove(comps, tmpls, d, k) ==
  LET template_names == {t.name : t \in get_templates_qs(tmpls, d, k)}
  IN {c \in get_components_qs(comps, d, k) : c.name \notin template_names}

\* utils.py 269-281 with the delete reaching the templates as well.
handle_bulk_remove_out_of_sync_with_templates(comps, tmpls, d, k) ==
  LET r == delete(comps, components_to_remove(comps, tmpls, d, k))
  IN [Response(r.components, "success", "Removed out of sync", 0, 0, r.n, 0)
        EXCEPT !.templates = tmpls \ get_templates_qs(tmpls, d, k)]

handle_bulk_remove_out_of_sync(comps, tmpls, d, k) ==
  LET r == delete(comps, components_to_remove(comps, tmpls, d, k))
  IN IF r.n > 0
     THEN Response(r.components, "success", "Removed out of sync", 0, 0, r.n, 0)
     ELSE Response(r.components, "info", "No out of sync to remove", 0, 0, 0, 0)

\* utils.py 248-254: the first template with another name and the same type.
matching_template(c, tlist) ==
  LET hits == {i \in 1..Len(tlist) :
                 c.name # tlist[i].name /\ c.type = tlist[i].type}
  IN IF hits = {} THEN <<>>
     ELSE <<tlist[CHOOSE i \in hits : \A j \in hits : i <= j]>>

RECURSIVE repair_each(_, _, _, _, _)
\* utils.py 246-259: the loop over the components of the queryset.
repair_each(comps, clist, tlist, i, reject) ==
  IF i > Len(clist) THEN [components |-> comps, n |-> 0, raised |-> FALSE]
  ELSE LET m == matching_template(clist[i], tlist)
       IN IF m = <<>> THEN repair_each(comps, clist, tlist, i + 1, reject)
          ELSE LET renamed == [clist[i] EXCEPT !.name = m[1].name]
               IN IF reject /\ Introduces(comps, renamed)
                  THEN [components |-> comps, n |-> 0, raised |-> TRUE]
                  ELSE LET saved == {c \in comps : c.id # renamed.id} \cup {renamed}
                           rest == repair_each(saved, clist, tlist, i + 1, reject)
                       IN [rest EXCEPT !.n = rest.n + 1]

handle_bulk_repair_out_of_sync(comps, tmpls, d, k, reject) ==
  LET r == repair_each(comps, ComponentOrder(get_components_qs(comps, d, k)),
                       TemplateOrder(get_templates_qs(tmpls, d, k)), 1, reject)
  IN IF r.raised
     THEN Response(r.components, "exception", "IntegrityError", 0, 0, 0, r.n)
     ELSE IF r.n > 0
     THEN Response(r.components, "success", "Repaired out of sync", 0, 0, 0, r.n)
     ELSE Response(r.components, "info", "No out of sync to repair", 0, 0, 0, 0)

\* utils.py 284-336: add missing, remove out of sync, fixed = 0.
handle_bulk_sync_all(comps, tmpls, d, k, id0, reject) ==
  LET a == create_missing(comps, tmpls, d, k, id0, reject)
      r == delete(a.components, components_to_remove(a.components, tmpls, d, k))
      fixed == 0
  IN IF a.raised
     THEN Response(a.components, "exception", "IntegrityError", a.n, 0, 0, 0)
     ELSE IF a.n > 0 \/ r.n > 0 \/ fixed > 0
     THEN Response(r.components, "success", "Sync complete", a.n, 0, r.n, fixed)
     ELSE Response(r.components, "info", "All already in sync", 0, 0, 0, fixed)

\* An equality of comparison records that leaves the name out.
record_eq_by_type(c, t) == c.type = t.type

\* comparison.py _compare_attributes, on the fields the tables of this model
\* carry: name and type (label, description and the kind's other attributes
\* are equal on both sides).
record_eq(c, t) == c.name = t.name /\ c.type = t.type

RECURSIVE add_each(_, _, _, _, _, _, _, _)
\* utils.py 149-172: the loop over the selected templates.  pending is the
\* bulk_create list; nid the next primary key.
add_each(comps, addlist, i, d, k, nid, pending, reject) ==
  IF i > Len(addlist)
  THEN [components |-> comps, created |-> 0, updated |-> 0,
        pending |-> pending, raised |-> "no"]
  ELSE LET t == addlist[i]
           found == {c \in get_components_qs(comps, d, k) : c.name = t.name}
       IN IF Cardinality(found) > 1
          THEN [components |-> comps, created |-> 0, updated |-> 0,
                pending |-> pending, raised |-> "MultipleObjectsReturned"]
          ELSE IF found # {}
          THEN LET tmp == [(CHOOSE c \in found : TRUE) EXCEPT !.type = t.type]
                   saved == {c \in comps : c.id # tmp.id} \cup {tmp}
                   rest == add_each(saved, addlist, i + 1, d, k, nid, pending, reject)
               IN [rest EXCEPT !.updated = rest.updated + 1]
          ELSE LET tmp == NewComponent(t, d, k, nid)
               IN IF k = "modulebay"
                  THEN IF reject /\ Introduces(comps, tmp)
                       THEN [components |-> comps, created |-> 0, updated |-> 0,
                             pending |-> pending, raised |-> "IntegrityError"]
                       ELSE LET rest == add_each(comps \cup {tmp}, addlist, i + 1,
                                                 d, k, nid + 1, pending, reject)
                            IN [rest EXCEPT !.created = rest.created + 1]
                  ELSE add_each(comps, addlist, i + 1, d, k, nid + 1,
                                Append(pending, tmp), reject)

RECURSIVE fix_each(_, _, _, _, _)
\* utils.py 178-188: the loop over the components selected for fix-name, each
\* as it was read when the request arrived, with its comparison record.
fix_each(comps, fixlist, tlist, i, reject) ==
  IF i > Len(fixlist) THEN [components |-> comps, n |-> 0, raised |-> FALSE]
  ELSE LET hits == {j \in 1..Len(tlist) : record_eq(fixlist[i], tlist[j])}
       IN IF hits = {} THEN fix_each(comps, fixlist, tlist, i + 1, reject)
          ELSE LET corresponding_template == tlist[CHOOSE j \in hits : \A h \in hits : j <= h]
                   component == [fixlist[i] EXCEPT !.name = corresponding_template.name]
               IN IF reject /\ Introduces(comps, component)
                  THEN [components |-> comps, n |-> 0, raised |-> TRUE]
                  ELSE LET saved == {c \in comps : c.id # component.id} \cup {component}
                           rest == fix_each(saved, fixlist, tlist, i + 1, reject)
                       IN [rest EXCEPT !.n = rest.n + 1]

\* views.py 142-163 and utils.py 121-202: the single-item POST.  add, remove
\* and fix are the all-digit entries of add_to_device, remove_from_device and
\* fix_name.
post_components(comps, tmpls, d, k, add, remove, fix, id0, reject) ==
  LET components_qs == get_components_qs(comps, d, k)
      templates_qs == get_templates_qs(tmpls, d, k)
      fix_name_components == ComponentOrder({c \in components_qs : c.id \in fix})
      unified_component_templates == TemplateOrder(templates_qs)
      add_to_device == {i \in add : \E t \in templates_qs : t.id = i}
      remove_from_device == {i \in remove : \E c \in components_qs : c.id = i}
      del == delete(comps, {c \in comps : c.kind = k /\ c.id \in remove_from_device})
      addlist == TemplateOrder({t \in tmpls : t.kind = k /\ t.id \in add_to_device})
      a == add_each(del.components, addlist, 1, d, k, id0, <<>>, reject)
      b == bulk_create(a.components, a.pending, reject)
      f == fix_each(b.components, fix_name_components, unified_component_templates, 1,
                    reject)
      response ==
        IF a.raised # "no"
        THEN Response(a.components, "exception", a.raised, a.created, a.updated, del.n, 0)
        ELSE IF b.raised
        THEN Response(b.components, "exception", "IntegrityError", a.created, a.updated,
                      del.n, 0)
        ELSE IF f.raised
        THEN Response(f.components, "exception", "IntegrityError",
                      a.created + b.n, a.updated, del.n, f.n)
        ELSE Response(f.components, "success", "summary",
                      a.created + b.n, a.updated, del.n, f.n)
  IN [response EXCEPT !.selected = [add |-> add, remove |-> remove, fix |-> fix]]

\* ------------------------------------------------- asynchronous bridge
\* views.py 151: a component selected for fix-name with the comparison
\* record projected from it.
pair(c) ==
  [component |-> c, component_comparison |-> [name |-> c.name, type |-> c.type]]

\* async_utils.py 54: the host gives every model instance the attribute pk,
\* saved or not.
hasattr_pk(component) == TRUE

\* async_utils.py 97-100: {comp.name: comp for comp in components}, a later
\* component of a name replacing an earlier one.
_build_components_dict(comps, d, k) ==
  LET l == ComponentOrder(get_components_qs(comps, d, k))
  IN {l[j] : j \in {h \in 1..Len(l) : \A g \in (h + 1)..Len(l) : l[g].name # l[h].name}}

\* async_utils.py 111: components_dict.get(name), as a set of at most one row.
existing_component(components_dict, t) ==
  {c \in components_dict : c.name = t.name}

\* async_utils.py 50-61: whether the loop awaits the persistence layer for
\* template t: an existing component is saved, a new module bay is saved when
\* it passes the test of line 54.
awaits(components_dict, t, k) ==
  \/ existing_component(components_dict, t) # {}
  \/ ~hasattr_pk(t) /\ k = "modulebay"

\* The first template from position from on for which the loop awaits; past
\* the end when there is none.
next_await(rows, components_dict, k, from) ==
  LET hits == {j \in from..Len(rows) : awaits(components_dict, rows[j], k)}
  IN IF hits = {} THEN Len(rows) + 1 ELSE CHOOSE j \in hits : \A h \in hits : j <= h

\* async_utils.py 54-61: the new components collected for bulk_create.
bulk_create_list(rows, components_dict, d, k, id0) ==
  LET sel == TemplateOrder({t \in Range(rows) :
                              /\ existing_component(components_dict, t) = {}
                              /\ ~hasattr_pk(t)
                              /\ k # "modulebay"})
  IN [j \in 1..Len(sel) |-> NewComponent(sel[j], d, k, id0 + j - 1)]

RECURSIVE name_fix_each(_, _, _, _, _)
\* async_utils.py 89-95: template_dict[component_comparison.name] bears the
\* name it is looked up by.
name_fix_each(comps, pairs, template_names, i, reject) ==
  IF i > Len(pairs) THEN [components |-> comps, n |-> 0, raised |-> FALSE]
  ELSE LET component == pairs[i].component
           template_name == pairs[i].component_comparison.name
       IN IF template_name \in template_names /\ component.name # template_name
          THEN LET renamed == [component EXCEPT !.name = template_name]
               IN IF reject /\ Introduces(comps, renamed)
                  THEN [components |-> comps, n |-> 0, raised |-> TRUE]
                  ELSE LET saved == {c \in comps : c.id # renamed.id} \cup {renamed}
                           rest == name_fix_each(saved, pairs, template_names, i + 1,
                                                 reject)
                       IN [rest EXCEPT !.n = rest.n + 1]
          ELSE name_fix_each(comps, pairs, template_names, i + 1, reject)

\* async_utils.py 82-95
process_name_fixes(comps, unified_comps, unified_tmpls, reject) ==
  IF unified_comps = <<>> THEN [components |-> comps, n |-> 0, raised |-> FALSE]
  ELSE name_fix_each(comps, unified_comps, {t.name : t \in Range(unified_tmpls)}, 1,
                     reject)

RECURSIVE process_additions(_, _, _, _)
\* async_utils.py 33-69, 102-130: process_additions run from its template at
\* position i to its end with no other task in between.  An existing
\* component of the template's name takes the template's fields and is
\* saved; a new component fails the test of line 54 and is dropped.
process_additions(comps, rows, components_dict, i) ==
  IF i > Len(rows) THEN [components |-> comps, updated |-> 0]
  ELSE LET found == existing_component(components_dict, rows[i])
       IN IF found = {} \/ ~hasattr_pk(rows[i])
          THEN process_additions(comps, rows, components_dict, i + 1)
          ELSE LET tmp == [(CHOOSE c \in found : TRUE) EXCEPT !.type = rows[i].type]
                   rest == process_additions({c \in comps : c.id # tmp.id} \cup {tmp},
                                             rows, (components_dict \ found) \cup {tmp},
                                             i + 1)
               IN [rest EXCEPT !.updated = rest.updated + 1]

\* async_utils.py 71-80, 33-69: process_deletions run to its end, then
\* process_additions run to its end.
deletions_then_additions(comps, tmpls, d, k, add_ids, remove_ids) ==
  LET r == delete(comps, {c \in comps : c.kind = k /\ c.id \in remove_ids})
      rows == TemplateOrder({t \in tmpls : t.kind = k /\ t.id \in add_ids})
      a == process_additions(r.components, rows,
                             _build_components_dict(r.components, d, k), 1)
  IN [components |-> a.components,
      stats |-> [created |-> 0, updated |-> a.updated, deleted |-> r.n, fixed |-> 0]]

\* What gather waited for with one task finishing being enough.
gathered_first(p) ==
  p.deletions \in {"none", "done"} \/ p.additions \in {"none", "done"}

\* async_utils.py 162-163: await asyncio.gather(*tasks) returns when every
\* scheduled task has finished.
gathered(p) ==
  p.deletions \in {"none", "done"} /\ p.additions \in {"none", "done"}

\* --------------------------------------------------- comparison records
\* comparison.py: the nine dataclasses, named by their component kind.
ComparisonKinds ==
  {"interface", "frontport", "rearport", "consoleport", "consoleserverport",
   "powerport", "poweroutlet", "devicebay", "modulebay"}

\* The kinds whose class derives from ParentTypedComparison.
TypedKinds == ComparisonKinds \ {"devicebay", "modulebay"}

\* The dataclass fields of a kind: ParentComparison's, ParentTypedComparison's
\* and the class's own.
Fields(k) ==
  {"id", "name", "label", "description", "is_template"}
  \cup (IF k \in TypedKinds THEN {"type", "type_display"} ELSE {})
  \cup (CASE k = "interface" -> {"enabled", "mgmt_only", "poe_mode", "poe_type", "rf_role"}
          [] k = "frontport" -> {"color", "rear_port_position"}
          [] k = "rearport" -> {"color", "positions"}
          [] k = "powerport" -> {"maximum_draw", "allocated_draw"}
          [] k = "poweroutlet" -> {"power_port_name", "feed_leg"}
          [] k = "modulebay" -> {"position"}
          [] OTHER -> {})

\* The extra_attrs the __eq__ of a kind's class (its own or the inherited one)
\* hands to _compare_attributes.
extra_attrs(k) ==
  CASE k = "interface" -> {"type", "enabled", "mgmt_only", "poe_mode", "poe_type", "rf_role"}
    [] k = "frontport" -> {"type", "color", "rear_port_position"}
    [] k = "rearport" -> {"type", "color", "positions"}
    [] k = "powerport" -> {"type", "maximum_draw", "allocated_draw"}
    [] k = "poweroutlet" -> {"type", "power_port_name", "feed_leg"}
    [] k = "modulebay" -> {"position"}
    [] k = "devicebay" -> {}
    [] OTHER -> {"type"}

\* comparison.py 17-31 with the description compared whatever the
\* configuration says.
_compare_attributes_with_description(self, other, extra) ==
  IF ~({"name", "label"} \subseteq DOMAIN other) \/ ~(extra \subseteq DOMAIN other)
  THEN [implemented |-> FALSE, value |-> FALSE]
  ELSE [implemented |-> TRUE,
        value |-> /\ self["name"] = other["name"]
                  /\ self["label"] = other["label"]
                  /\ \A attr \in extra : self[attr] = other[attr]
                  /\ self["description"] = other["description"]]

\* comparison.py 17-31 with the name left out of the comparison.
_compare_attributes_without_name(self, other, extra) ==
  IF ~({"name", "label"} \subseteq DOMAIN other) \/ ~(extra \subseteq DOMAIN other)
  THEN [implemented |-> FALSE, value |-> FALSE]
  ELSE [implemented |-> TRUE,
        value |-> /\ self["label"] = other["label"]
                  /\ \A attr \in extra : self[attr] = other[attr]
                  /\ config.compare_description =>
                       self["description"] = other["description"]]

\* comparison.py 17-31.  A comparison record is a function from its field
\* names (and "class") to values; implemented = FALSE stands for the return
\* value NotImplemented.
_compare_attributes(self, other, extra) ==
  IF ~({"name", "label"} \subseteq DOMAIN other) \/ ~(extra \subseteq DOMAIN other)
  THEN [implemented |-> FALSE, value |-> FALSE]
  ELSE [implemented |-> TRUE,
        value |-> /\ self["name"] = other["name"]
                  /\ self["label"] = other["label"]
                  /\ \A attr \in extra : self[attr] = other[attr]
                  /\ config.compare_description =>
                       self["description"] = other["description"]]

__eq__(self, other) == _compare_attributes(self, other, extra_attrs(self["class"]))

\* The tuple each __hash__ hashes; equal tuples hash alike.
__hash__(self) ==
  IF self["class"] = "poweroutlet"
  THEN <<self["name"], self["type"], self["power_port_name"]>>
  ELSE IF self["class"] \in TypedKinds
  THEN <<self["name"], self["type"]>>
  ELSE <<self["name"]>>

\* a == b on two comparison records: a.__eq__(b), on NotImplemented the
\* reflected b.__eq__(a), on NotImplemented again identity.
eq(a, b) ==
  IF __eq__(a, b).implemented THEN __eq__(a, b).value
  ELSE IF __eq__(b, a).implemented THEN __eq__(b, a).value
  ELSE a = b

\* ------------------------------------------------- the static registry
\* The name of a kind's host model (Model.__name__).
ModelName(k) ==
  CASE k = "interface" -> "Interface"
    [] k = "powerport" -> "PowerPort"
    [] k = "consoleport" -> "ConsolePort"
    [] k = "consoleserverport" -> "ConsoleServerPort"
    [] k = "poweroutlet" -> "PowerOutlet"
    [] k = "frontport" -> "FrontPort"
    [] k = "rearport" -> "RearPort"
    [] k = "devicebay" -> "DeviceBay"
    [] k = "modulebay" -> "ModuleBay"

\* component_registry.py 69-237: the label of each entry.
component_label(k) ==
  CASE k = "interface" -> "Interfaces"
    [] k = "powerport" -> "Power ports"
    [] k = "consoleport" -> "Console ports"
    [] k = "consoleserverport" -> "Console server ports"
    [] k = "poweroutlet" -> "Power outlets"
    [] k = "frontport" -> "Front ports"
    [] k = "rearport" -> "Rear ports"
    [] k = "devicebay" -> "Device bays"
    [] k = "modulebay" -> "Module bays"

\* component_registry.py 69-237: the factory_fields of each entry.
factory_fields(k) ==
  <<"id", "name", "label", "description">>
  \o (CASE k = "interface" ->
              <<"type", "enabled", "mgmt_only", "poe_mode", "poe_type", "rf_role">>
         [] k = "powerport" -> <<"type", "maximum_draw", "allocated_draw">>
         [] k = "consoleport" -> <<"type">>
         [] k = "consoleserverport" -> <<"type">>
         [] k = "poweroutlet" -> <<"type", "feed_leg">>
         [] k = "frontport" -> <<"type", "color", "rear_port_position">>
         [] k = "rearport" -> <<"type", "color", "positions">>
         [] k = "devicebay" -> <<>>
         [] k = "modulebay" -> <<"position">>)

\* component_registry.py 69-237: the keys of special_fields of each entry.
special_fields(k) ==
  CASE k = "poweroutlet" -> {"type_display", "power_port_name"}
    [] k \in {"devicebay", "modulebay"} -> {}
    [] OTHER -> {"type_display"}

\* The four permission strings of a host model.
permissions(model) ==
  <<"dcim.view_" \o model, "dcim.add_" \o model, "dcim.change_" \o model,
    "dcim.delete_" \o model>>

\* component_registry.py 69-237: the ComponentConfig of a built-in kind.
ComponentConfig(k) ==
  [component_label |-> component_label(k),
   model |-> ModelName(k),
   template_model |-> ModelName(k) \o "Template",
   comparison_class |-> ModelName(k) \o "Comparison",
   permissions |-> permissions(k),
   factory_fields |-> factory_fields(k),
   special_fields |-> special_fields(k),
   custom_queryset_filter |-> IF k = "interface" THEN "exclude_interface_type_list"
                              ELSE "None"]

\* ----------------------------------------------------- auto-discovery
\* str.lower() on the names of this model.
lower(str) ==
  CASE str = "Interface" -> "interface"
    [] str = "InterfaceTemplate" -> "interfacetemplate"
    [] str = "WidgetBay" -> "widgetbay"
    [] str = "Site" -> "site"
    [] OTHER -> str

\* dcim_app.get_models() of the host: a component model with its template
\* model, a model with a device relation and no template counterpart, and a
\* model without device relation.
get_models == <<"Interface", "InterfaceTemplate", "WidgetBay", "Site">>

\* model._meta.get_fields() of the host's models, each field with what the
\* discovery reads of it.
get_fields(model) ==
  LET column(n, ty) == [name |-> n, internal_type |-> ty, related_model |-> "None",
                        collection |-> FALSE]
      relation(n, to) == [name |-> n, internal_type |-> "ForeignKey",
                          related_model |-> to, collection |-> FALSE]
  IN CASE model = "Interface" ->
            {column("id", "BigAutoField"), column("name", "CharField"),
             column("label", "CharField"), column("description", "CharField"),
             column("type", "CharField"), column("enabled", "BooleanField"),
             column("mtu", "PositiveIntegerField"), relation("device", "Device"),
             [name |-> "tags", internal_type |-> "ManyToManyField",
              related_model |-> "Tag", collection |-> TRUE]}
       [] model = "InterfaceTemplate" ->
            {column("id", "BigAutoField"), column("name", "CharField"),
             relation("device_type", "DeviceType")}
       [] model = "WidgetBay" ->
            {column("id", "BigAutoField"), column("name", "CharField"),
             relation("device", "Device")}
       [] OTHER -> {column("id", "BigAutoField"), column("name", "CharField")}

\* model.__name__.endswith('Template')
endswith_Template(model) == model = "InterfaceTemplate"

\* auto_discovery.py 78-96
_is_component_model(model) ==
  /\ ~endswith_Template(model)
  /\ \E field \in get_fields(model) : field.related_model = "Device"

\* A template lookup by name alone: the model's name with "Template" added.
_get_template_model_by_suffix(model) == model \o "Template"

\* auto_discovery.py 37-47, 98-110: the template model of a component model,
\* "None" when the mapping has no entry for it.
_get_template_model(model) ==
  IF \E k \in ComparisonKinds : ModelName(k) = model
  THEN model \o "Template" ELSE "None"

\* The field names of this model in alphabetical order.
Alphabetical ==
  <<"description", "device", "device_type", "enabled", "id", "label", "mtu", "name",
    "tags", "type">>

\* auto_discovery.py 112-139: the sorted names of the fields of the listed
\* storage types outside EXCLUDED_FIELDS, and of the common fields.
_analyze_model_fields(model) ==
  LET fields == {f.name : f \in {g \in get_fields(model) :
                   /\ g.name \notin {"tags", "device", "device_type"}
                   /\ ~g.collection
                   /\ g.internal_type \in
                        {"CharField", "TextField", "IntegerField", "BooleanField",
                         "PositiveIntegerField", "ForeignKey", "SmallIntegerField"}}}
                \cup ({"id", "name", "label", "description"}
                      \cap {f.name : f \in get_fields(model)})
      in_fields(n) == n \in fields
  IN SelectSeq(Alphabetical, in_fields)

\* auto_discovery.py 141-151
_generate_permissions(model) == permissions(lower(model))

\* auto_discovery.py 179-201
_generate_component_label(model) ==
  IF \E k \in ComparisonKinds : ModelName(k) = model
  THEN component_label(lower(model)) ELSE lower(model) \o "s"

\* auto_discovery.py 153-177: the keys of the special fields.
_generate_special_fields(model) ==
  (IF \E f \in get_fields(model) : f.name = "type" THEN {"type_display"} ELSE {})
  \cup (IF model = "PowerOutlet" THEN {"power_port_name"} ELSE {})

\* discovery_config.py 52-54
is_component_excluded(excluded_types, component_name) ==
  lower(component_name) \in {lower(t) : t \in excluded_types}

\* auto_discovery.py 263-272
DiscoveredComponent(model) ==
  [name |-> lower(model),
   model |-> model,
   template_model |-> _get_template_model(model),
   component_label |-> _generate_component_label(model),
   factory_fields |-> _analyze_model_fields(model),
   permissions |-> _generate_permissions(model),
   special_fields |-> _generate_special_fields(model),
   custom_queryset_filter |-> IF lower(model) = "interface"
                              THEN "exclude_interface_type_list" ELSE "None"]

\* auto_discovery.py 230-279: the loop over the host's models.  A model
\* whose introspection raises is skipped (277-279).
discovered_by_loop(excluded_types, broken) ==
  LET found == {m \in Range(get_models) :
                  /\ m \notin broken
                  /\ _is_component_model(m)
                  /\ ~is_component_excluded(excluded_types, lower(m))
                  /\ _get_template_model(m) # "None"}
  IN [n \in {lower(m) : m \in found} |->
        DiscoveredComponent(CHOOSE m \in found : lower(m) = n)]

\* component_registry.py 300-328 with an existing entry overwritten.
merge_replacing(registry, discovered) ==
  [n \in DOMAIN registry \cup DOMAIN discovered |->
     IF n \in DOMAIN discovered
     THEN [component_label |-> discovered[n].component_label,
           model |-> discovered[n].model,
           template_model |-> discovered[n].template_model,
           comparison_class |-> discovered[n].model \o "Comparison",
           permissions |-> discovered[n].permissions,
           factory_fields |-> discovered[n].factory_fields,
           special_fields |-> discovered[n].special_fields,
           custom_queryset_filter |-> discovered[n].custom_queryset_filter]
     ELSE registry[n]]

\* component_registry.py 300-328: a ComponentConfig is added for each
\* discovered name the registry does not hold.
merge(registry, discovered) ==
  [n \in DOMAIN registry \cup DOMAIN discovered |->
     IF n \in DOMAIN registry THEN registry[n]
     ELSE [component_label |-> discovered[n].component_label,
           model |-> discovered[n].model,
           template_model |-> discovered[n].template_model,
           comparison_class |-> discovered[n].model \o "Comparison",
           permissions |-> discovered[n].permissions,
           factory_fields |-> discovered[n].factory_fields,
           special_fields |-> discovered[n].special_fields,
           custom_queryset_filter |-> discovered[n].custom_queryset_filter]]

\* component_registry.py 290-333 without the except clause: what
\* discover_components raised leaves the function.
_populate_registry_from_discovery_uncaught(registry, outcome) ==
  IF outcome.raised # "no" THEN [raised |-> outcome.raised, registry |-> registry]
  ELSE [raised |-> "no", registry |-> merge(registry, outcome.map)]

\* component_registry.py 290-333 from the return of discover_components
\* on: outcome is what the call returned or raised.
_populate_registry_from_discovery(registry, outcome) ==
  IF outcome.raised # "no" THEN [raised |-> "no", registry |-> registry]
  ELSE [raised |-> "no", registry |-> merge(registry, outcome.map)]

\* No value: what a call that raised hands back.
None == <<>>

\* component_registry.py 245-247 returning None for an unknown name.
get_component_config_or_none(registry, component_type) ==
  IF component_type \notin DOMAIN registry
  THEN [raised |-> "no", value |-> None]
  ELSE [raised |-> "no", value |-> registry[component_type]]

\* component_registry.py 245-247: the lookup get_component_config makes
\* after _populate_registry_from_discovery returned.
get_component_config(registry, component_type) ==
  IF component_type \notin DOMAIN registry
  THEN [raised |-> "ValueError", value |-> None]
  ELSE [raised |-> "no", value |-> registry[component_type]]

\* ------------------------------------------------------- the factories
\* The parameters of a comparison class's __init__ that take positional
\* arguments, in order: the dataclass fields of the class and its bases
\* without the keyword-only is_template.
init_parameters(k) ==
  <<"id", "name", "label", "description">>
  \o (IF k \in TypedKinds THEN <<"type", "type_display">> ELSE <<>>)
  \o (CASE k = "interface" ->
              <<"enabled", "mgmt_only", "poe_mode", "poe_type", "rf_role">>
         [] k = "frontport" -> <<"color", "rear_port_position">>
         [] k = "rearport" -> <<"color", "positions">>
         [] k = "powerport" -> <<"maximum_draw", "allocated_draw">>
         [] k = "poweroutlet" -> <<"power_port_name", "feed_leg">>
         [] k = "modulebay" -> <<"position">>
         [] OTHER -> <<>>)

\* comparison.py 15, 65-68: the fields declared with a default value.  They
\* are the only fields that exist as attributes of the class itself.
defaults(k) ==
  IF k = "interface"
  THEN [f \in {"mgmt_only", "poe_mode", "poe_type", "rf_role"} |->
          IF f = "mgmt_only" THEN "False" ELSE ""]
  ELSE <<>>

\* hasattr(comparison_class, name) on the class.
hasattr_class(k, name) == name \in DOMAIN defaults(k) \cup {"is_template"}

TypeError == [raised |-> "TypeError", record |-> <<>>]

\* comparison_class(**args, is_template=...): every argument must name a
\* field and every field without a default must be given.
construct(k, args, is_template) ==
  IF \/ ~(DOMAIN args \subseteq Range(init_parameters(k)))
     \/ ~(Range(init_parameters(k)) \ DOMAIN defaults(k) \subseteq DOMAIN args)
  THEN TypeError
  ELSE [raised |-> "no",
        record |-> [f \in Fields(k) \cup {"class"} |->
                      CASE f = "class" -> k
                        [] f = "is_template" -> is_template
                        [] f \in DOMAIN args -> args[f]
                        [] OTHER -> defaults(k)[f]]]

\* comparison_class(*values, **keywords, is_template=...): the values are
\* bound to the parameters in order.
construct_positional(k, values, keywords, is_template) ==
  IF \/ Len(values) > Len(init_parameters(k))
     \/ \E i \in 1..Len(values) : init_parameters(k)[i] \in DOMAIN keywords
  THEN TypeError
  ELSE construct(k, [f \in {init_parameters(k)[i] : i \in 1..Len(values)}
                            \cup DOMAIN keywords |->
                       IF f \in DOMAIN keywords THEN keywords[f]
                       ELSE values[CHOOSE i \in 1..Len(values) :
                                     init_parameters(k)[i] = f]],
                 is_template)

\* getattr(instance, name, default) on a host record.
getattr(inst, name, default) == IF name \in DOMAIN inst THEN inst[name] ELSE default

\* component_registry.py 55-65 (and views.py 332-340, factory.py 183-191):
\* the name of the power port an outlet refers to, "" when it refers to none
\* or the lookup fails.
get_power_port_name(inst, is_template) ==
  IF inst["power_port_id"] \in {"None", "dangling"} THEN "" ELSE "PSU1"

\* component_registry.py 250-275: the factory built from a kind's registry
\* entry.
create_component_factory(cfg, k, inst, is_template) ==
  LET fields == Range(cfg.factory_fields)
      args == [f \in fields \cup cfg.special_fields |->
                 IF f = "power_port_name" THEN get_power_port_name(inst, is_template)
                 ELSE IF f = "type_display" THEN inst["type_display"]
                 ELSE getattr(inst, f, "None")]
  IN construct(k, args, is_template)

\* factory.py 120-280: extra_attributes of each registered configuration.
extra_attributes(k) ==
  CASE k = "interface" -> <<"enabled", "mgmt_only", "poe_mode", "poe_type", "rf_role">>
    [] k = "powerport" -> <<"maximum_draw", "allocated_draw">>
    [] k = "frontport" -> <<"color", "rear_port_position">>
    [] k = "rearport" -> <<"color", "positions">>
    [] k = "modulebay" -> <<"position">>
    [] OTHER -> <<>>

\* factory.py 89-118: ComponentFactory._default_factory.
_default_factory(k, inst, is_template) ==
  LET base_args == <<inst["id"], inst["name"], inst["label"], inst["description"]>>
                   \o (IF hasattr_class(k, "type")
                       THEN <<inst["type"], inst["type_display"]>> ELSE <<>>)
      extra_values == [i \in 1..Len(extra_attributes(k)) |->
                         getattr(inst, extra_attributes(k)[i], "")]
  IN construct_positional(k, base_args \o extra_values, <<>>, is_template)

\* views.py 331-351 and factory.py 182-203: the power outlet record.
power_outlet_factory(inst, is_template) ==
  construct_positional(
    "poweroutlet",
    <<inst["id"], inst["name"], inst["label"], inst["description"], inst["type"],
      inst["type_display"]>>,
    [f \in {"power_port_name", "feed_leg"} |->
       IF f = "feed_leg" THEN inst["feed_leg"]
       ELSE get_power_port_name(inst, is_template)],
    is_template)

\* factory.py 80-87: ComponentFactory.create_comparison_object.
create_comparison_object(k, inst, is_template) ==
  IF k = "poweroutlet" THEN power_outlet_factory(inst, is_template)
  ELSE _default_factory(k, inst, is_template)

\* views.py 216-230, 248-259, ..., 448-451: <Kind>ComparisonView._factory.
_factory(k, inst, is_template) ==
  IF k = "poweroutlet" THEN power_outlet_factory(inst, is_template)
  ELSE construct_positional(
         k, [i \in 1..Len(init_parameters(k)) |-> inst[init_parameters(k)[i]]],
         <<>>, is_template)

\* ------------------------------------------------------- natural order
\* A name is a sequence of one-character strings.
DigitValue(ch) ==
  CASE ch = "0" -> 0 [] ch = "1" -> 1 [] ch = "2" -> 2 [] ch = "3" -> 3
    [] ch = "4" -> 4 [] ch = "5" -> 5 [] ch = "6" -> 6 [] ch = "7" -> 7
    [] ch = "8" -> 8 [] ch = "9" -> 9

isdigit(ch) == ch \in {"0", "1", "2", "3", "4", "5", "6", "7", "8", "9"}

\* Code points of the characters the names of this model use.
ord(ch) ==
  IF isdigit(ch) THEN 48 + DigitValue(ch)
  ELSE CASE ch = "/" -> 47 [] ch = "G" -> 71 [] ch = "a" -> 97 [] ch = "b" -> 98
         [] ch = "e" -> 101 [] ch = "i" -> 105 [] OTHER -> 120

RECURSIVE int(_)
\* int(x or "0") of a run of digits.
int(x) ==
  IF x = <<>> THEN 0
  ELSE int(SubSeq(x, 1, Len(x) - 1)) * 10 + DigitValue(x[Len(x)])

\* Length of the longest prefix of s whose characters are all digits (want)
\* or all non-digits (~want): what \d* and \D* consume.
run(s, want) ==
  CHOOSE n \in 0..Len(s) :
    /\ \A i \in 1..n : isdigit(s[i]) = want
    /\ n = Len(s) \/ isdigit(s[n + 1]) # want

RECURSIVE split(_)
\* utils.py 11-14: for every match of (\d*)(\D*), the empty match at the end
\* included, the pairs ("", int(x or "0")) and (y, 0).
split(s) ==
  LET nx == run(s, TRUE)
      rest == SubSeq(s, nx + 1, Len(s))
      ny == run(rest, FALSE)
      pairs == << <<(<<>>), int(SubSeq(s, 1, nx))>>, <<SubSeq(rest, 1, ny), 0>> >>
  IN IF nx + ny = 0 THEN pairs
     ELSE pairs \o split(SubSeq(rest, ny + 1, Len(rest)))

\* A sort key that takes the whole name as one run of text.
natural_keys_as_text(c) == << <<c, 0>> >>

\* utils.py 17-18
natural_keys(c) == split(c)

\* ------------------------------------------------ submitted identifiers
\* U+00B2, SUPERSCRIPT TWO: a character str.isdigit() accepts and int()
\* rejects.
SuperscriptTwo == "sup2"

\* x.isdigit() on a submitted value: it is not empty and each character is a
\* decimal digit or another digit character.
str_isdigit(x) ==
  /\ x # <<>>
  /\ \A i \in 1..Len(x) : isdigit(x[i]) \/ x[i] = SuperscriptTwo

\* int(x) raises ValueError on a character that is no decimal digit.
int_raises(x) == \E i \in 1..Len(x) : ~isdigit(x[i])

\* async_utils.py 212 (and utils.py 123-133, views.py 80):
\* [int(x) for x in raw_values if x.isdigit()].
comprehension(raw_values) ==
  LET digits == SelectSeq(raw_values, str_isdigit)
  IN IF \E i \in 1..Len(digits) : int_raises(digits[i])
     THEN [raised |-> "ValueError", value |-> <<>>]
     ELSE [raised |-> "no", value |-> [i \in 1..Len(digits) |-> int(digits[i])]]

\* async_utils.py 209-212
parse_form_ids(raw_values) == comprehension(raw_values)

\* async_utils.py 215-218; valid_ids_qs is a set of rows.
filter_valid_ids(ids, valid_ids_qs) ==
  LET valid_ids == {r.id : r \in valid_ids_qs}
      valid(id) == id \in valid_ids
  IN SelectSeq(ids, valid)

RECURSIVE str_lt(_, _)
\* a < b on strings: by code point, a proper prefix first.
str_lt(a, b) ==
  IF b = <<>> THEN FALSE
  ELSE IF a = <<>> THEN TRUE
  ELSE IF ord(a[1]) # ord(b[1]) THEN ord(a[1]) < ord(b[1])
  ELSE str_lt(Tail(a), Tail(b))

RECURSIVE tuple_lt(_, _)
\* a < b on tuples of (str, int) pairs.
tuple_lt(a, b) ==
  IF b = <<>> THEN FALSE
  ELSE IF a = <<>> THEN TRUE
  ELSE IF a[1] = b[1] THEN tuple_lt(Tail(a), Tail(b))
  ELSE IF a[1][1] # b[1][1] THEN str_lt(a[1][1], b[1][1])
  ELSE a[1][2] < b[1][2]

RECURSIVE sorted(_)
\* list(S) followed by list.sort(key=natural_keys(o.name)): the iteration
\* order of a set is not specified and the sort is stable, so records whose
\* keys are equal come out in any order.
sorted(S) ==
  IF S = {} THEN {<<>>}
  ELSE UNION {{<<m>> \o rest : rest \in sorted(S \ {m})} :
                m \in {x \in S : \A y \in S :
                         ~tuple_lt(natural_keys(y["name"]), natural_keys(x["name"]))}}

RECURSIVE human_sorted(_)
\* utils.py 21-22: sorted(iterable, key=natural_keys).  The sort is stable:
\* a name goes before the names after it in the list whose key is not
\* smaller.
human_sorted(iterable) ==
  IF iterable = <<>> THEN <<>>
  ELSE LET x == Head(iterable)
           rest == human_sorted(Tail(iterable))
           n == Cardinality({j \in 1..Len(rest) :
                               tuple_lt(natural_keys(rest[j]), natural_keys(x))})
       IN SubSeq(rest, 1, n) \o <<x>> \o SubSeq(rest, n + 1, Len(rest))

\* ------------------------------------------------------------ the diff
\* list(l) taken for set(l): every member kept.
set_keeping_all(l, i, kept) ==
  Range(l)

RECURSIVE set(_, _, _)
\* set(l): the members of l in turn, one kept unless a kept one has the same
\* hash and is equal to it.
set(l, i, kept) ==
  IF i > Len(l) THEN kept
  ELSE IF \E o \in kept : __hash__(o) = __hash__(l[i]) /\ eq(o, l[i])
  THEN set(l, i + 1, kept)
  ELSE set(l, i + 1, kept \cup {l[i]})

\* l[l.index(i)] as a list of at most one record: empty on ValueError.
index(l, i) ==
  LET hits == {j \in 1..Len(l) : eq(l[j], i)}
  IN IF hits = {} THEN <<>> ELSE <<l[CHOOSE j \in hits : \A h \in hits : j <= h]>>

\* utils.py 57-68
sync_status(template, component) ==
  IF template # <<>> /\ component # <<>>
  THEN IF template[1]["name"] = component[1]["name"] THEN "in_sync"
       ELSE "name_mismatch"
  ELSE IF template # <<>> THEN "missing_from_device"
  ELSE IF component # <<>> THEN "missing_from_template"
  ELSE "unknown"

count(rows, status) == Cardinality({i \in 1..Len(rows) : rows[i].status = status})

\* utils.py 34-97: the context get_components renders, overall_powers being
\* the sorted union.
get_components(unified_comps, unified_component_templates, overall_powers) ==
  LET comparison_items ==
        [i \in 1..Len(overall_powers) |->
           LET template == index(unified_component_templates, overall_powers[i])
               component == index(unified_comps, overall_powers[i])
           IN [template |-> template, component |-> component,
               status |-> sync_status(template, component)]]
  IN [fn |-> "get_components",
      comparison_items |-> comparison_items,
      templates_count |-> Len(unified_component_templates),
      sync_stats |->
        [in_sync |-> count(comparison_items, "in_sync"),
         name_mismatch |-> count(comparison_items, "name_mismatch"),
         missing_from_device |-> count(comparison_items, "missing_from_device"),
         missing_from_template |-> count(comparison_items, "missing_from_template")]]

NoStats ==
  [in_sync |-> 0, name_mismatch |-> 0, missing_from_device |-> 0,
   missing_from_template |-> 0]

\* async_utils.py 181-206: the (template, component) pairs, without status.
build_comparison_data(unified_comps, unified_tmpls, overall_items) ==
  [fn |-> "build_comparison_data",
   comparison_items |->
     [i \in 1..Len(overall_items) |->
        [template |-> index(unified_tmpls, overall_items[i]),
         component |-> index(unified_comps, overall_items[i]),
         status |-> "none"]],
   templates_count |-> 0,
   sync_stats |-> NoStats]

\* ------------------------------------------------------ initial state
\* The rows the devices may hold before the first request.  Device 1 is the
\* device under synchronization; device 2 is another device (a member of
\* device 1's virtual chassis when there is one) holding at most one row.
ComponentShapes(k) ==
  {x \in [device : Devices, name : Names, type : TypesOf(k), module : BOOLEAN] :
     /\ x.module => x.type # "lag"
     /\ x.name = "b" => (x.type # "lag" /\ ~x.module)
     /\ x.device = 2 => (x.name = "a" /\ x.type # "lag" /\ ~x.module)}

\* The host keeps (device, name) unique within a component table.
InitShapeSets(k) ==
  {S \in SUBSET ComponentShapes(k) :
     /\ Cardinality(S) <= MaxInitComponents
     /\ \A x, y \in S : (x.device = y.device /\ x.name = y.name) => x = y}

ShapeOrder(S) ==
  OrderBy(S, [x \in S |-> x.device * 1000 + Rank(x.name) * 100
                          + (IF x.type = "lag" THEN 10 ELSE 0)
                          + (IF x.module THEN 1 ELSE 0)])

InitComponents(k, S) ==
  LET sq == ShapeOrder(S)
  IN {[id |-> i, kind |-> k, device |-> sq[i].device, name |-> sq[i].name,
       type |-> sq[i].type, module |-> sq[i].module] : i \in 1..Len(sq)}
     \cup {[id |-> Len(sq) + 1, kind |-> OtherKind(k), device |-> 1, name |-> "a",
            type |-> CHOOSE ty \in TypesOf(OtherKind(k)) : TRUE, module |-> FALSE]}

\* The templates of device type dt1 for the run's kind: per name none or one;
\* a template of another device type and one of another kind besides.
InitTemplates(k, f) ==
  {[id |-> Rank(n), kind |-> k, device_type |-> "dt1", name |-> n, type |-> f[n]] :
     n \in {m \in Names : f[m] # "absent"}}
  \cup {[id |-> Len(NameOrder) + 1, kind |-> k, device_type |-> "dt2", name |-> "b",
         type |-> CHOOSE ty \in TypesOf(k) : TRUE],
        [id |-> Len(NameOrder) + 2, kind |-> OtherKind(k), device_type |-> "dt1",
         name |-> "b", type |-> CHOOSE ty \in TypesOf(OtherKind(k)) : TRUE]}

NoRequest ==
  [entry |-> "none", op |-> "none", device |-> 0, level |-> "none", message |-> "",
   created |-> 0, updated |-> 0, deleted |-> 0, fixed |-> 0, selected |-> NoSelection]

\* ---------------------------------------- inputs of the pure functions
\* A dataclass instance of kind k; the fields a caller leaves alone are "".
Record(k, id, is_template, name, description) ==
  [f \in Fields(k) \cup {"class"} |->
     CASE f = "class" -> k
       [] f = "id" -> id
       [] f = "is_template" -> is_template
       [] f = "name" -> name
       [] f = "description" -> description
       [] OTHER -> ""]

\* views.py 90-93, 216-240: the comparison record the view's factory builds
\* from a row of the tables: its id, name and, for a typed kind, type.
unified(row, k, is_template) ==
  LET r == Record(k, row.id, is_template, <<row.name>>, "")
  IN IF k \in TypedKinds THEN [r EXCEPT !["type"] = row.type] ELSE r

\* views.py 113-121 with utils.py 34-97: the diffs of device d and kind k a
\* view computes from the tables, one for each order the sort may leave.
diff_of(comps, tmpls, d, k) ==
  LET cl == ComponentOrder(get_components_qs(comps, d, k))
      tl == TemplateOrder(get_templates_qs(tmpls, d, k))
      unified_comps == [j \in 1..Len(cl) |-> unified(cl[j], k, FALSE)]
      unified_tmpls == [j \in 1..Len(tl) |-> unified(tl[j], k, TRUE)]
  IN {get_components(unified_comps, unified_tmpls, overall_powers) :
        overall_powers \in sorted(set(unified_tmpls \o unified_comps, 1, {}))}

DiffKinds == {"interface", "modulebay"}
DiffNames == {<<"e", "1">>, <<"e", "2">>, <<"e", "1", "0">>}

\* What the records of the lists differ in: the name, and for e2 the
\* description as well.
DiffShapes ==
  {s \in [name : DiffNames, description : {"", "x"}] :
     s.description = "x" => s.name = <<"e", "2">>}

ShapeLists == UNION {[1..n -> DiffShapes] : n \in 0..MaxLen}

NoComparison ==
  [fn |-> "none", comparison_items |-> <<>>, templates_count |-> 0,
   sync_stats |-> NoStats]

NoVerdict == [fn |-> "none", eq |-> FALSE, hash_eq |-> FALSE]

NoStatistics == [created |-> 0, updated |-> 0, deleted |-> 0, fixed |-> 0]

\* No ComponentProcessor exists.
NoProcessor ==
  [pc |-> "idle", deletions |-> "none", additions |-> "none", device |-> 0,
   add_ids |-> {}, remove_ids |-> {}, unified_components |-> <<>>,
   unified_templates |-> <<>>, templates |-> <<>>, components_dict |-> <<>>,
   i |-> 1, stats |-> NoStatistics, order |-> <<>>]

\* The variables a specification does not use.
NoTables ==
  /\ device_type = [d \in Devices |-> "dt1"]
  /\ vc_master = 0
  /\ components = {}
  /\ templates = {}
  /\ nextId = 1
  /\ requests = 0
  /\ pre = {}
  /\ last = NoRequest
  /\ processor = NoProcessor
  /\ user = {}

NoDiff ==
  /\ unified_components = <<>>
  /\ unified_templates = <<>>
  /\ comparison = NoComparison

NoRecords ==
  /\ records = <<>>
  /\ verdict = NoVerdict

\* No form was submitted.
NoForm == [field |-> "none", raw_values |-> <<>>]

NoParsed == [fn |-> "none", raised |-> "no", value |-> <<>>, valid_ids |-> {}]

NoIds ==
  /\ form = NoForm
  /\ parsed = NoParsed

\* ------------------------------------- the registry and its discovery
\* The values of enable_auto_discovery and exclude_auto_discovery_types.
Settings ==
  [enable_auto_discovery : BOOLEAN,
   exclude_auto_discovery_types : {{}, {"Interface"}}]

\* The host's device module: whether apps.get_app_config('dcim') finds it,
\* whether get_models() raises, and the models whose introspection raises.
Hosts ==
  {h \in [found : BOOLEAN, get_models : {"ok", "raises"},
          broken : {{}, {"Interface"}}] :
     /\ ~h.found => (h.get_models = "ok" /\ h.broken = {})
     /\ h.get_models = "raises" => h.broken = {}}

\* A thread outside the registry and the discovery.
Idle ==
  [pc |-> "idle", op |-> "none", component_type |-> "none", enabled |-> FALSE,
   excluded |-> {}, completed |-> FALSE, running |-> FALSE, discovered |-> <<>>]

NoAnswer ==
  [op |-> "none", component_type |-> "none", enabled |-> FALSE, excluded |-> {},
   completed |-> FALSE, running |-> FALSE, introspected |-> FALSE,
   failure |-> "none", discovered |-> {}, raised |-> "no", value |-> <<>>]

NoTrace == [calls |-> 0, passes |-> 0, first |-> <<>>, changes |-> 0]

\* No list was sorted and no message composed.
NoSorting == [fn |-> "none", iterable |-> <<>>, value |-> <<>>]

NoMessage == [clauses |-> <<>>, fallback |-> <<>>]

NoSummary ==
  [fn |-> "none", stats |-> NoStatistics, component_type |-> "", message |-> NoMessage]

\* The variables of the sort and of the message outside their specifications.
NoText ==
  /\ sorting = NoSorting
  /\ summary = NoSummary

\* The variables of the registry outside its specification.
NoRegistry ==
  /\ settings = [enable_auto_discovery |-> TRUE, exclude_auto_discovery_types |-> {}]
  /\ dcim = [found |-> TRUE, get_models |-> "ok", broken |-> {}]
  /\ _discovery = [_discovered_components |-> <<>>, _discovery_in_progress |-> FALSE]
  /\ COMPONENT_REGISTRY = <<>>
  /\ callers = [t \in Callers |-> Idle]
  /\ answer = NoAnswer
  /\ trace = NoTrace

\* The value a host record of this model carries in an attribute.
HostValue(f) ==
  CASE f = "id" -> 1
    [] f = "name" -> "e1"
    [] f = "label" -> "l"
    [] f = "type" -> "t"
    [] f = "type_display" -> "T"
    [] f \in {"enabled", "mgmt_only"} -> "True"
    [] f = "poe_mode" -> "pd"
    [] f = "poe_type" -> "type1"
    [] f = "rf_role" -> "ap"
    [] f = "color" -> "red"
    [] f \in {"rear_port_position", "positions", "position"} -> "1"
    [] f = "maximum_draw" -> "10"
    [] f = "allocated_draw" -> "5"
    [] f = "feed_leg" -> "A"

\* A row of a kind's component or template model: the attributes the
\* factories read.  type_display is what get_type_display() returns;
\* power_port_id is "None", the key of a power port, or a dangling key.
HostRecord(k, description, power_port_id) ==
  [f \in (Range(init_parameters(k)) \ {"power_port_name"})
          \cup (IF k = "poweroutlet" THEN {"power_port_id"} ELSE {}) |->
     CASE f = "description" -> description
       [] f = "power_port_id" -> power_port_id
       [] OTHER -> HostValue(f)]

NoInstance == [is_template |-> FALSE, row |-> <<>>]

NotBuilt == [raised |-> "not called", record |-> <<>>]

NoBuilt == [registry |-> NotBuilt, component_factory |-> NotBuilt, view |-> NotBuilt]

NoFactory ==
  /\ instance = NoInstance
  /\ built = NoBuilt

\* A host record of one of the nine kinds, a component or a template.
InitFactory ==
  \E k \in ComparisonKinds, cd \in BOOLEAN, is_template \in BOOLEAN :
  \E description \in {"", "x"}, power_port_id \in {"None", "p1", "dangling"} :
    /\ k # "poweroutlet" => power_port_id = "None"
    /\ kind = k
    /\ config = [exclude_interface_type_list |-> {}, compare_description |-> cd]
    /\ instance = [is_template |-> is_template,
                   row |-> HostRecord(k, description, power_port_id)]
    /\ built = NoBuilt
    /\ NoTables
    /\ NoDiff
    /\ NoRecords
    /\ NoIds
    /\ NoRegistry
    /\ NoText

\* auto_discovery.py 64-67, 296 and component_registry.py 69-237: the
\* process after the modules were imported.
InitRegistry ==
  /\ settings \in Settings
  /\ dcim \in Hosts
  /\ _discovery = [_discovered_components |-> <<>>, _discovery_in_progress |-> FALSE]
  /\ COMPONENT_REGISTRY = [k \in ComparisonKinds |-> ComponentConfig(k)]
  /\ callers = [t \in Callers |-> Idle]
  /\ answer = NoAnswer
  /\ trace = NoTrace
  /\ kind = "interface"
  /\ config = [exclude_interface_type_list |-> {}, compare_description |-> TRUE]
  /\ NoTables
  /\ NoDiff
  /\ NoRecords
  /\ NoIds
  /\ NoFactory
  /\ NoText

\* The values a client may submit in an identifier list: identifiers of rows
\* of the tables, text, and a digit character that is no decimal digit.
FormEntries ==
  {<<"1">>, <<"2">>, <<"3">>, <<"x">>, <<"1", "x">>, <<SuperscriptTwo>>}

\* request.POST.getlist(field) of a single-item POST.
Forms ==
  [field : {"add_to_device", "remove_from_device"},
   raw_values : UNION {[1..n -> FormEntries] : n \in 0..MaxEntries}]

\* Two lists of comparison records of one kind: the device's and the
\* templates'.
InitDiff ==
  \E k \in DiffKinds, cd \in BOOLEAN, cs \in ShapeLists, ts \in ShapeLists :
    /\ kind = k
    /\ config = [exclude_interface_type_list |-> {}, compare_description |-> cd]
    /\ unified_components =
         [i \in 1..Len(cs) |-> Record(k, i, FALSE, cs[i].name, cs[i].description)]
    /\ unified_templates =
         [i \in 1..Len(ts) |-> Record(k, 10 + i, TRUE, ts[i].name, ts[i].description)]
    /\ comparison = NoComparison
    /\ NoTables
    /\ NoRecords
    /\ NoIds
    /\ NoFactory
    /\ NoRegistry
    /\ NoText

\* The value a field takes in the second record of a pair when it differs.
Other(f, v) ==
  CASE f = "id" -> v + 1
    [] f = "is_template" -> ~v
    [] f = "name" -> <<"e", "2">>
    [] OTHER -> "x"

\* Two records of one kind that differ in the fields D.
InitEq ==
  \E k \in ComparisonKinds, cd \in BOOLEAN :
  \E D \in SUBSET Fields(k) :
    /\ Cardinality(D) <= MaxDiffer
    /\ kind = k
    /\ config = [exclude_interface_type_list |-> {}, compare_description |-> cd]
    /\ LET x == Record(k, 1, FALSE, <<"e", "1">>, "")
       IN records = <<x, [f \in DOMAIN x |-> IF f \in D THEN Other(f, x[f]) ELSE x[f]]>>
    /\ verdict = NoVerdict
    /\ NoTables
    /\ NoDiff
    /\ NoIds
    /\ NoFactory
    /\ NoRegistry
    /\ NoText

\* The tables before the first request.
InitRows ==
  \E k \in Kinds, dt \in {"dt1", "None"}, vm \in {0, 1, 2}, ex \in {{}, {"lag"}} :
  \E S \in InitShapeSets(k), f \in [Names -> TypesOf(k) \cup {"absent"}] :
    /\ k # "interface" => (vm = 0 /\ ex = {})
    /\ vm # 0 => dt = "dt1"
    /\ f["b"] # "lag"
    /\ kind = k
    /\ device_type = [d \in Devices |-> IF d = 1 THEN dt ELSE "dt1"]
    /\ vc_master = vm
    /\ config = [exclude_interface_type_list |-> ex, compare_description |-> TRUE]
    /\ components = InitComponents(k, S)
    /\ templates = InitTemplates(k, f)
    /\ nextId = Cardinality(S) + 2
    /\ requests = 0
    /\ pre = components
    /\ last = NoRequest
    /\ processor = NoProcessor
    /\ NoDiff
    /\ NoRecords
    /\ NoFactory
    /\ NoRegistry
    /\ NoText

\* views.py 201-206, 234-239, ..., 434-439: permission_required of a kind's
\* view, as the actions on the kind's model (dcim.<action>_<model>).
permission_required(k) == {"view", "add", "change", "delete"}

\* The requests come from a user who holds the four permissions.
Init ==
  /\ InitRows
  /\ user = permission_required(kind)
  /\ NoIds

\* ------------------------------------------------------------ requests
\* user.has_perms(perm_list) for every user.
has_perms_of_anybody(perms, perm_list) == TRUE

\* user.has_perms(perm_list): the user holds every permission of the list.
has_perms(perms, perm_list) == perm_list \subseteq perms

\* views.py 96-97: PermissionRequiredMixin.has_permission, which dispatch asks
\* before it calls get or post.
has_permission == has_perms(user, permission_required(kind))

\* views.py 54-59: ComponentActionsMixin.actions.
actions(action) ==
  CASE action = "bulk_add_missing" -> {"add"}
    [] action = "bulk_repair_out_of_sync" -> {"change"}
    [] action = "bulk_remove_out_of_sync" -> {"delete"}
    [] action = "bulk_sync_all" -> {"add", "change", "delete"}

\* views.py 61-76: the actions whose permissions the user holds.
get_permitted_actions(perms) ==
  {action \in {"bulk_add_missing", "bulk_repair_out_of_sync",
               "bulk_remove_out_of_sync", "bulk_sync_all"} :
     actions(action) = {} \/ has_perms(perms, actions(action))}

Static ==
  UNCHANGED <<kind, device_type, vc_master, config, unified_components,
              unified_templates, comparison, records, verdict, user, ids_vars,
              factory_vars, registry_vars, text_vars>>

\* views.py 96: a comparison view answers through PermissionRequiredMixin,
\* which raises PermissionDenied in place of the handler's response r when
\* the user lacks a required permission.  The list views of the mixin
\* (actions.py) make no such test of their own.
dispatch(entry, r) ==
  IF entry = "view" /\ ~has_permission
  THEN Response(components, "exception", "PermissionDenied", 0, 0, 0, 0)
  ELSE r

\* The response of a request whose handler gives r: the tables after it and
\* the flashed message.
Respond(entry, op, d, r) ==
  /\ requests < MaxRequests
  /\ processor.pc # "gather"
  /\ requests' = requests + 1
  /\ components' = dispatch(entry, r).components
  /\ nextId' = nextId + Cardinality({c \in dispatch(entry, r).components : c.id >= nextId})
  /\ pre' = components
  /\ last' = [entry |-> entry, op |-> op, device |-> d,
              level |-> dispatch(entry, r).level,
              message |-> dispatch(entry, r).message,
              created |-> dispatch(entry, r).created,
              updated |-> dispatch(entry, r).updated,
              deleted |-> dispatch(entry, r).deleted,
              fixed |-> dispatch(entry, r).fixed,
              selected |-> r.selected]
  /\ templates' = dispatch(entry, r).templates
  /\ UNCHANGED processor
  /\ Static

Unchanged(lvl, msg) == Response(components, lvl, msg, 0, 0, 0, 0)

\* views.py 131-134, 165-179: POST with bulk_add_missing set.
PostBulkAddMissing(d) ==
  \E reject \in BOOLEAN :
       Respond("view", "bulk_add_missing", d,
               handle_bulk_add_missing(components, templates, d, kind, nextId, reject))

\* views.py 180-184: POST with bulk_repair_out_of_sync set.
PostBulkRepair(d) ==
  \E reject \in BOOLEAN :
    Respond("view", "bulk_repair_out_of_sync", d,
            handle_bulk_repair_out_of_sync(components, templates, d, kind, reject))

\* views.py 185-189: POST with bulk_remove_out_of_sync set.
PostBulkRemove(d) ==
  Respond("view", "bulk_remove_out_of_sync", d,
          handle_bulk_remove_out_of_sync(components, templates, d, kind))

\* views.py 190-194: POST with bulk_sync_all set.
PostBulkSyncAll(d) ==
  \E reject \in BOOLEAN :
       Respond("view", "bulk_sync_all", d,
               handle_bulk_sync_all(components, templates, d, kind, nextId, reject))

\* views.py 195-197: a bulk action key is present and none has a value.
PostUnknownBulk(d) ==
  Respond("view", "unknown", d, Unchanged("error", "Unknown bulk action requested."))

\* views.py 136-163: POST without a bulk action key.  The submitted
\* identifiers are drawn from the rows of the kind's tables: of any device or
\* device type, attached to a module or not.
PostSingle(d) ==
  \E add \in SUBSET {t.id : t \in {x \in templates : x.kind = kind}} :
  \E remove \in SUBSET {c.id : c \in {x \in components : x.kind = kind}} :
  \E fix \in SUBSET {c.id : c \in {x \in components : x.kind = kind}} :
  \E reject \in BOOLEAN :
    /\ Cardinality(add) + Cardinality(remove) + Cardinality(fix) <= MaxSelected
    /\ Respond("view", "single", d,
               post_components(components, templates, d, kind, add, remove, fix,
                               nextId, reject))

\* views.py 113-129: get_components is called with a keyword it does not
\* take (view_instance), so the call raises TypeError.
Get(d) ==
  Respond("view", "get", d, Unchanged("exception", "TypeError"))

\* actions.py 75-157: the four bulk actions of the list-view mixin.  With a
\* device type, get_component_mapping imports COMPONENT_MAPPINGS from views,
\* which defines no such name: ImportError.
MixinBulk(d) ==
  \E op \in {"bulk_sync_add_missing", "bulk_sync_repair", "bulk_sync_remove", "bulk_sync_all"} :
    Respond("mixin", op, d,
            IF device_type[d] = "None"
            THEN Unchanged("error", "Device or device type not found.")
            ELSE Unchanged("exception", "ImportError"))

Next ==
  \E d \in RequestDevices :
    \/ PostBulkAddMissing(d)
    \/ PostBulkRepair(d)
    \/ PostBulkRemove(d)
    \/ PostBulkSyncAll(d)
    \/ PostUnknownBulk(d)
    \/ PostSingle(d)
    \/ Get(d)
    \/ MixinBulk(d)

Spec == Init /\ [][Next]_vars

\* ------------------------------------------------------ the permissions
\* The requests of a user who holds any of the four permissions, on a device
\* with a device type outside a virtual chassis.
InitPerm ==
  /\ InitRows
  /\ \A c \in components : c.device = 1
  /\ device_type[1] = "dt1"
  /\ vc_master = 0
  /\ config.exclude_interface_type_list = {}
  /\ user \in SUBSET permission_required(kind)
  /\ NoIds

SpecPerm == InitPerm /\ [][Next]_vars

\* ------------------------------------------- the submitted identifiers
\* A power port comparison view of a device with a device type, and the
\* identifier list one field of a single-item POST carries.
InitIds ==
  /\ InitRows
  /\ kind = "powerport"
  /\ device_type[1] = "dt1"
  /\ user = permission_required(kind)
  /\ form \in Forms
  /\ parsed = NoParsed

\* The queryset the identifiers of a field are checked against.
valid_ids_qs(field, d) ==
  IF field = "add_to_device" THEN get_templates_qs(templates, d, kind)
  ELSE get_components_qs(components, d, kind)

IdsStatic ==
  UNCHANGED <<Tables, unified_components, unified_templates, comparison, records,
              verdict, form, factory_vars, registry_vars, text_vars>>

\* async_utils.py 209-212 on the submitted list.
ParseFormIds ==
  /\ parsed' = [fn |-> "parse_form_ids",
                raised |-> parse_form_ids(form.raw_values).raised,
                value |-> parse_form_ids(form.raw_values).value,
                valid_ids |-> {}]
  /\ IdsStatic

\* async_utils.py 215-218 on the parsed list and the field's queryset.
FilterValidIds(d) ==
  /\ parse_form_ids(form.raw_values).raised = "no"
  /\ parsed' = [fn |-> "filter_valid_ids", raised |-> "no",
                value |-> filter_valid_ids(parse_form_ids(form.raw_values).value,
                                           valid_ids_qs(form.field, d)),
                valid_ids |-> {r.id : r \in valid_ids_qs(form.field, d)}]
  /\ IdsStatic

\* views.py 136-163 and utils.py 121-202 on the submitted list: the field's
\* values go through filter(isdigit) and map(int, ...), which the id__in
\* lookup of utils.py 136 or 139 consumes; the other lists are empty.
PostForm(d) ==
  \E reject \in BOOLEAN :
    /\ Respond("view", "single", d,
               IF comprehension(form.raw_values).raised # "no"
               THEN Unchanged("exception", comprehension(form.raw_values).raised)
               ELSE post_components(
                      components, templates, d, kind,
                      IF form.field = "add_to_device"
                      THEN Range(comprehension(form.raw_values).value) ELSE {},
                      IF form.field = "remove_from_device"
                      THEN Range(comprehension(form.raw_values).value) ELSE {},
                      {}, nextId, reject))

NextIds ==
  \/ ParseFormIds
  \/ \E d \in RequestDevices : FilterValidIds(d)
  \/ \E d \in RequestDevices : PostForm(d)

SpecIds == InitIds /\ [][NextIds]_vars

\* ------------------------------------------------------- the factories
FactoryStatic ==
  UNCHANGED <<Tables, unified_components, unified_templates, comparison, records,
              verdict, ids_vars, instance, registry_vars, text_vars>>

\* component_registry.py 250-275 with the kind's entry of the registry.
BuildFromRegistry ==
  /\ built.registry = NotBuilt
  /\ built' = [built EXCEPT !.registry =
                 create_component_factory(ComponentConfig(kind), kind, instance.row,
                                          instance.is_template)]
  /\ FactoryStatic

\* factory.py 80-87
BuildFromComponentFactory ==
  /\ built.component_factory = NotBuilt
  /\ built' = [built EXCEPT !.component_factory =
                 create_comparison_object(kind, instance.row, instance.is_template)]
  /\ FactoryStatic

\* views.py 90-93: factory(i) or factory(i, is_template=True) with the
\* view's _factory.
BuildFromView ==
  /\ built.view = NotBuilt
  /\ built' = [built EXCEPT !.view = _factory(kind, instance.row, instance.is_template)]
  /\ FactoryStatic

NextFactory == BuildFromRegistry \/ BuildFromComponentFactory \/ BuildFromView

SpecFactory == InitFactory /\ [][NextFactory]_vars

\* ------------------------------------- the registry and its discovery
RegistryStatic ==
  UNCHANGED <<Tables, unified_components, unified_templates, comparison, records,
              verdict, ids_vars, factory_vars, dcim, text_vars>>

\* Thread t's call returns.  outcome is what discover_components returned
\* or raised (raised = "not called" when the call never reached it).  A call
\* of discover_components hands it to its caller; get_component_config
\* (component_registry.py 240-247) and get_all_component_types (336-340)
\* merge it into the registry and answer from the registry.
Return(t, frame, outcome, introspected, failure) ==
  LET populated == IF outcome.raised = "not called"
                   THEN [raised |-> "no", registry |-> COMPONENT_REGISTRY]
                   ELSE _populate_registry_from_discovery(COMPONENT_REGISTRY, outcome)
      registry == populated.registry
      result ==
        CASE frame.op = "discover_components" ->
               [raised |-> outcome.raised, value |-> outcome.map]
          [] populated.raised # "no" ->
               [raised |-> populated.raised, value |-> None]
          [] frame.op = "get_component_config" ->
               get_component_config(registry, frame.component_type)
          [] frame.op = "get_all_component_types" ->
               [raised |-> "no", value |-> DOMAIN registry]
  IN /\ COMPONENT_REGISTRY' =
          IF frame.op = "discover_components" THEN COMPONENT_REGISTRY ELSE registry
     /\ answer' = [op |-> frame.op, component_type |-> frame.component_type,
                   enabled |-> frame.enabled, excluded |-> frame.excluded,
                   completed |-> frame.completed, running |-> frame.running,
                   introspected |-> introspected, failure |-> failure,
                   discovered |-> DOMAIN outcome.map,
                   raised |-> result.raised, value |-> result.value]
     /\ callers' = [callers EXCEPT ![t] = Idle]

\* Thread t calls discover_components (auto_discovery.py 203-219), or
\* get_component_config or get_all_component_types, which call it through
\* _populate_registry_from_discovery unless _should_use_auto_discovery
\* (component_registry.py 279-293) says no.  The call returns from the tests
\* of lines 210-219 or goes on to line 221.
Call(t) ==
  \E op \in {"discover_components", "get_component_config", "get_all_component_types"} :
  \E component_type \in {"none", "interface", "widgetbay"} :
    LET frame == [Idle EXCEPT
                    !.op = op, !.component_type = component_type,
                    !.enabled = settings.enable_auto_discovery,
                    !.excluded = settings.exclude_auto_discovery_types,
                    !.completed = trace.passes > 0,
                    !.running = \E o \in Callers : callers[o].pc \in {"introspect", "store"}]
    IN /\ callers[t].pc = "idle"
       /\ trace.calls < MaxCalls
       /\ (op = "get_component_config") = (component_type # "none")
       /\ trace' = [trace EXCEPT !.calls = @ + 1]
       /\ UNCHANGED <<settings, _discovery>>
       /\ RegistryStatic
       /\ IF op # "discover_components" /\ ~settings.enable_auto_discovery
          THEN Return(t, frame, [raised |-> "not called", map |-> <<>>], FALSE, "none")
          ELSE IF _discovery._discovered_components # <<>>
          THEN Return(t, frame, [raised |-> "no",
                                 map |-> _discovery._discovered_components],
                      FALSE, "none")
          ELSE IF _discovery._discovery_in_progress \/ ~settings.enable_auto_discovery
          THEN Return(t, frame, [raised |-> "no", map |-> <<>>], FALSE, "none")
          ELSE /\ callers' = [callers EXCEPT ![t] = [frame EXCEPT !.pc = "claim"]]
               /\ UNCHANGED <<COMPONENT_REGISTRY, answer>>

\* auto_discovery.py 221-228: the flag is set and the host's device module
\* looked up; when the host has none the call returns an empty map.
Claim(t) ==
  /\ callers[t].pc = "claim"
  /\ UNCHANGED <<settings, trace>>
  /\ RegistryStatic
  /\ IF dcim.found
     THEN /\ _discovery' = [_discovery EXCEPT !._discovery_in_progress = TRUE]
          /\ callers' = [callers EXCEPT ![t].pc = "introspect"]
          /\ UNCHANGED <<COMPONENT_REGISTRY, answer>>
     ELSE /\ _discovery' = [_discovery EXCEPT !._discovery_in_progress = FALSE]
          /\ Return(t, callers[t], [raised |-> "no", map |-> <<>>], FALSE, "RuntimeError")

\* auto_discovery.py 230-279: the host's models are introspected.  An
\* exception of get_models() leaves discover_components with the flag set.
Introspect(t) ==
  /\ callers[t].pc = "introspect"
  /\ UNCHANGED <<settings, trace, _discovery>>
  /\ RegistryStatic
  /\ IF dcim.get_models = "raises"
     THEN Return(t, callers[t], [raised |-> "Exception", map |-> <<>>], TRUE, "Exception")
     ELSE /\ callers' = [callers EXCEPT
                           ![t].pc = "store",
                           ![t].discovered =
                             discovered_by_loop(settings.exclude_auto_discovery_types,
                                                dcim.broken)]
          /\ UNCHANGED <<COMPONENT_REGISTRY, answer>>

\* auto_discovery.py 281-284: the map is stored, the flag cleared and the
\* map returned.
Store(t) ==
  /\ callers[t].pc = "store"
  /\ _discovery' = [_discovered_components |-> callers[t].discovered,
                    _discovery_in_progress |-> FALSE]
  /\ trace' = [trace EXCEPT !.passes = @ + 1,
                            !.first = IF trace.passes = 0 THEN callers[t].discovered
                                      ELSE @]
  /\ UNCHANGED settings
  /\ RegistryStatic
  /\ Return(t, callers[t], [raised |-> "no", map |-> callers[t].discovered], TRUE,
            IF dcim.broken # {} THEN "model" ELSE "none")

\* The settings are changed while the process runs, between two calls.
ChangeSettings ==
  /\ trace.changes < MaxSettingsChanges
  /\ \A t \in Callers : callers[t].pc = "idle"
  /\ settings' \in Settings \ {settings}
  /\ trace' = [trace EXCEPT !.changes = @ + 1]
  /\ UNCHANGED <<_discovery, COMPONENT_REGISTRY, callers, answer>>
  /\ RegistryStatic

NextRegistry ==
  \/ \E t \in Callers : Call(t)
  \/ \E t \in Callers : Claim(t)
  \/ \E t \in Callers : Introspect(t)
  \/ \E t \in Callers : Store(t)
  \/ ChangeSettings

SpecRegistry == InitRegistry /\ [][NextRegistry]_vars

\* -------------------------------------- asynchronous bridge: the steps
\* The state a run of the bridge starts from: device 1 with a device type,
\* outside a virtual chassis, no interface type excluded, device 2 empty.
InitAsync ==
  /\ Init
  /\ \A c \in components : c.device = 1
  /\ device_type[1] = "dt1"
  /\ vc_master = 0
  /\ config.exclude_interface_type_list = {}
  /\ \A c \in components : c.type # "lag"
  /\ \A t \in templates : t.type # "lag"

\* The response the caller builds from processor.stats.
Statistics(d, lvl, stats) ==
  [entry |-> "async", op |-> "process_component_comparison", device |-> d,
   level |-> lvl, message |-> "stats", created |-> stats.created,
   updated |-> stats.updated, deleted |-> stats.deleted, fixed |-> stats.fixed,
   selected |-> [add |-> processor.add_ids, remove |-> processor.remove_ids,
                 fix |-> {p.component.id : p \in Range(processor.unified_components)}]]

\* async_utils.py 133-163: the processor is built and the tasks are scheduled.
ProcessComponentComparison(d) ==
  \E add_ids \in SUBSET {t.id : t \in {x \in templates : x.kind = kind}} :
  \E remove_ids \in SUBSET {c.id : c \in {x \in components : x.kind = kind}} :
  \E fix \in SUBSET {c.id : c \in get_components_qs(components, d, kind)} :
    /\ Cardinality(add_ids) + Cardinality(remove_ids) + Cardinality(fix) <= MaxSelected
    /\ requests < MaxRequests
    /\ processor.pc # "gather"
    /\ requests' = requests + 1
    /\ processor' =
         [pc |-> "gather",
          deletions |-> IF remove_ids # {} THEN "scheduled" ELSE "none",
          additions |-> IF add_ids # {} THEN "scheduled" ELSE "none",
          device |-> d, add_ids |-> add_ids, remove_ids |-> remove_ids,
          unified_components |->
            LET l == ComponentOrder({c \in get_components_qs(components, d, kind) :
                                       c.id \in fix})
            IN [j \in 1..Len(l) |-> pair(l[j])],
          unified_templates |-> TemplateOrder(get_templates_qs(templates, d, kind)),
          templates |-> <<>>, components_dict |-> {}, i |-> 1,
          stats |-> NoStatistics, order |-> <<>>]
    /\ pre' = components
    /\ last' = [Statistics(d, "pending", NoStatistics) EXCEPT
                   !.selected = [add |-> add_ids, remove |-> remove_ids, fix |-> fix]]
    /\ UNCHANGED <<components, templates, nextId>>
    /\ Static

\* async_utils.py 71-80: the one awaited call of process_deletions.
ProcessDeletions ==
  /\ processor.deletions = "scheduled"
  /\ LET r == delete(components, {c \in components :
                                    c.kind = kind /\ c.id \in processor.remove_ids})
         stats == [processor.stats EXCEPT !.deleted = r.n]
     IN /\ components' = r.components
        /\ processor' = [processor EXCEPT !.deletions = "done", !.stats = stats,
                                          !.order = Append(@, "deletions")]
        /\ last' = Statistics(processor.device, last.level, stats)
  /\ UNCHANGED <<templates, nextId, requests, pre>>
  /\ Static

\* async_utils.py 38-40: the selected templates are read.
AdditionsReadTemplates ==
  /\ processor.additions = "scheduled"
  /\ processor' =
       [processor EXCEPT
          !.additions = "templates",
          !.templates = TemplateOrder({t \in templates :
                                         t.kind = kind /\ t.id \in processor.add_ids})]
  /\ UNCHANGED <<components, templates, nextId, requests, pre, last>>
  /\ Static

\* async_utils.py 48-69: the components are read; the loop then runs to its
\* first awaited call, or to the end of the task when it has none.
AdditionsReadComponents ==
  /\ processor.additions = "templates"
  /\ LET d == processor.device
         dict == _build_components_dict(components, d, kind)
         i == next_await(processor.templates, dict, kind, 1)
         more == \/ i <= Len(processor.templates)
                 \/ bulk_create_list(processor.templates, dict, d, kind, nextId) # <<>>
     IN processor' =
          [processor EXCEPT
             !.components_dict = dict, !.i = i,
             !.additions = IF more THEN "loop" ELSE "done",
             !.order = IF more THEN @ ELSE Append(@, "additions")]
  /\ UNCHANGED <<components, templates, nextId, requests, pre, last>>
  /\ Static

\* async_utils.py 50-69, 102-130: the awaited call the task stands at is
\* served (the save of an existing component, the save of a new module bay,
\* or bulk_create), and the task runs to its next awaited call or its end.
AdditionsStep ==
  \E reject \in BOOLEAN :
    /\ processor.additions = "loop"
    /\ LET p == processor
           d == p.device
           rows == p.templates
           in_loop == p.i <= Len(rows)
           t == rows[p.i]
           found == existing_component(p.components_dict, t)
           tmp == IF ~in_loop THEN {}
                  ELSE IF found # {}
                  THEN {[(CHOOSE c \in found : TRUE) EXCEPT !.type = t.type]}
                  ELSE {NewComponent(t, d, kind, nextId)}
           bulk == bulk_create_list(rows, p.components_dict, d, kind, nextId)
           b == bulk_create(components, bulk, reject)
           raised == IF in_loop THEN reject /\ \E c \in tmp : Introduces(components, c)
                     ELSE b.raised
           saved == IF in_loop
                    THEN {c \in components : \A n \in tmp : c.id # n.id} \cup tmp
                    ELSE b.components
           dict == IF in_loop /\ found # {} THEN (p.components_dict \ found) \cup tmp
                   ELSE p.components_dict
           stats == IF ~in_loop THEN [p.stats EXCEPT !.created = @ + b.n]
                    ELSE IF found # {} THEN [p.stats EXCEPT !.updated = @ + 1]
                    ELSE [p.stats EXCEPT !.created = @ + 1]
           i == IF in_loop THEN next_await(rows, dict, kind, p.i + 1) ELSE p.i
           more == in_loop /\ (i <= Len(rows) \/ bulk # <<>>)
       IN IF raised
          THEN /\ processor' = [p EXCEPT !.additions = "raised",
                                         !.pc = IF @ = "gather" THEN "raised" ELSE @]
               /\ last' = Statistics(d, "exception", p.stats)
               /\ UNCHANGED <<components, nextId>>
          ELSE /\ components' = saved
               /\ nextId' = nextId + Cardinality({c \in saved : c.id >= nextId})
               /\ processor' =
                    [p EXCEPT !.components_dict = dict, !.i = i, !.stats = stats,
                              !.additions = IF more THEN "loop" ELSE "done",
                              !.order = IF more THEN @ ELSE Append(@, "additions")]
               /\ last' = Statistics(d, last.level, stats)
    /\ UNCHANGED <<templates, requests, pre>>
    /\ Static

\* async_utils.py 165-168: gather has returned; the name fixes run and the
\* statistics are returned.
ProcessNameFixes ==
  \E reject \in BOOLEAN :
    /\ processor.pc = "gather"
    /\ gathered(processor)
    /\ LET r == process_name_fixes(components, processor.unified_components,
                                   processor.unified_templates, reject)
           stats == [processor.stats EXCEPT !.fixed = r.n]
       IN /\ components' = r.components
          /\ processor' = [processor EXCEPT
                             !.pc = IF r.raised THEN "raised" ELSE "done",
                             !.stats = stats, !.order = Append(@, "name_fixes")]
          /\ last' = Statistics(processor.device,
                                IF r.raised THEN "exception" ELSE "success", stats)
    /\ UNCHANGED <<templates, nextId, requests, pre>>
    /\ Static

NextAsync ==
  \/ \E d \in RequestDevices : ProcessComponentComparison(d)
  \/ ProcessDeletions
  \/ AdditionsReadTemplates
  \/ AdditionsReadComponents
  \/ AdditionsStep
  \/ ProcessNameFixes
  \/ Next

SpecAsync == InitAsync /\ [][NextAsync]_vars

\* An executor that serves the submitted calls in any order.
any_thread(p) == TRUE

\* async_utils.py 11, 76-78, 38-40, 153-163: sync_to_async in its default
\* (thread-sensitive) mode hands every call to one thread, which serves the
\* calls in the order of their submission.  gather starts process_deletions
\* first, so its delete is submitted before process_additions submits its
\* first query, and every later query of process_additions is submitted
\* after that one was answered.
thread_sensitive(p) == p.deletions # "scheduled"

\* async_utils.py 38-40: the first query of process_additions is served in
\* its turn.
AdditionsReadTemplatesInTurn ==
  /\ thread_sensitive(processor)
  /\ AdditionsReadTemplates

\* The steps of the asynchronous bridge as the executor serves them.
NextBridge ==
  \/ \E d \in RequestDevices : ProcessComponentComparison(d)
  \/ ProcessDeletions
  \/ AdditionsReadTemplatesInTurn
  \/ AdditionsReadComponents
  \/ AdditionsStep
  \/ ProcessNameFixes

SpecBridge == InitAsync /\ [][NextBridge]_vars

\* --------------------------------------------------- the pure functions
\* utils.py 25-97
GetComponents ==
  /\ \E overall_powers \in sorted(set(unified_templates \o unified_components, 1, {})) :
       comparison' = get_components(unified_components, unified_templates, overall_powers)
  /\ UNCHANGED <<Tables, unified_components, unified_templates, records, verdict,
               ids_vars, factory_vars, registry_vars, text_vars>>

\* async_utils.py 181-206
BuildComparisonData ==
  /\ \E overall_items \in sorted(set(unified_templates \o unified_components, 1, {})) :
       comparison' = build_comparison_data(unified_components, unified_templates,
                                           overall_items)
  /\ UNCHANGED <<Tables, unified_components, unified_templates, records, verdict,
               ids_vars, factory_vars, registry_vars, text_vars>>

NextDiff == GetComponents \/ BuildComparisonData

SpecDiff == InitDiff /\ [][NextDiff]_vars

\* records[1] == records[2] and hash(records[1]) == hash(records[2])
Compare ==
  /\ verdict' = [fn |-> "__eq__", eq |-> eq(records[1], records[2]),
                 hash_eq |-> __hash__(records[1]) = __hash__(records[2])]
  /\ UNCHANGED <<Tables, unified_components, unified_templates, comparison, records,
               ids_vars, factory_vars, registry_vars, text_vars>>

NextEq == Compare

SpecEq == InitEq /\ [][NextEq]_vars


\* ------------------------------------------------------ the natural sort
\* Interface names: Gi1/1, Gi1/2, Gi1/10, Gi1/01, Ge1/2 and Gi2/1.
SortNames ==
  {<<"G", "i", "1", "/", "1">>, <<"G", "i", "1", "/", "2">>,
   <<"G", "i", "1", "/", "1", "0">>, <<"G", "i", "1", "/", "0", "1">>,
   <<"G", "e", "1", "/", "2">>, <<"G", "i", "2", "/", "1">>}

\* A list of names, no list sorted yet.
InitSort ==
  /\ sorting \in {[fn |-> "none", iterable |-> l, value |-> <<>>] :
                    l \in UNION {[1..n -> SortNames] : n \in 0..MaxNames}}
  /\ summary = NoSummary
  /\ kind = "interface"
  /\ config = [exclude_interface_type_list |-> {}, compare_description |-> TRUE]
  /\ NoTables
  /\ NoDiff
  /\ NoRecords
  /\ NoIds
  /\ NoFactory
  /\ NoRegistry

\* utils.py 21-22
HumanSorted ==
  /\ sorting.fn = "none"
  /\ sorting' = [sorting EXCEPT !.fn = "human_sorted",
                                !.value = human_sorted(sorting.iterable)]
  /\ UNCHANGED <<Tables, unified_components, unified_templates, comparison, records,
                 verdict, ids_vars, factory_vars, registry_vars, summary>>

NextSort == HumanSorted

SpecSort == InitSort /\ [][NextSort]_vars

\* -------------------------------------------------- the summary message
\* The counters of the statistics, in the order the dict holds them.
Operations == <<"created", "updated", "deleted", "fixed">>

\* str.lower() on the words of a message.
str_lower(word) ==
  CASE word = "Created" -> "created"
    [] word = "Updated" -> "updated"
    [] word = "Deleted" -> "deleted"
    [] word = "Fixed" -> "fixed"
    [] word = "Interfaces" -> "interfaces"
    [] word = "Power ports" -> "power ports"
    [] OTHER -> word

\* The word with its first character in upper case and the rest in lower
\* case.
str_capitalize(word) ==
  CASE str_lower(word) = "created" -> "Created"
    [] str_lower(word) = "updated" -> "Updated"
    [] str_lower(word) = "deleted" -> "Deleted"
    [] str_lower(word) = "fixed" -> "Fixed"
    [] OTHER -> word

\* The clauses "<operation> <count> <component_type>" of the counters above
\* zero, in the order of Operations.
clauses(stats, component_type) ==
  LET positive == SelectSeq(Operations, LAMBDA op : stats[op] > 0)
  IN [i \in 1..Len(positive) |->
        [operation |-> positive[i], count |-> stats[positive[i]],
         component_type |-> component_type]]

\* "; ".join(messages).capitalize(): the first character of the text in
\* upper case, every other character in lower case.
join_capitalize(messages) ==
  [clauses |->
     [i \in 1..Len(messages) |->
        [operation |-> IF i = 1 THEN str_capitalize(messages[i].operation)
                       ELSE str_lower(messages[i].operation),
         count |-> messages[i].count,
         component_type |-> str_lower(messages[i].component_type)]],
   fallback |-> <<>>]

\* async_utils.py 171-178
create_success_message(stats, component_type) ==
  LET messages == clauses(stats, component_type)
  IN IF messages # <<>> THEN join_capitalize(messages)
     ELSE [clauses |-> <<>>, fallback |-> <<component_type>>]

\* utils.py 190-200: the message post_components flashes with level success.
post_components_message(created, updated, deleted, fixed, component_type) ==
  join_capitalize(clauses([created |-> created, updated |-> updated,
                           deleted |-> deleted, fixed |-> fixed], component_type))

\* The statistics of a single-item request and the label of its kind.
InitMessage ==
  /\ summary \in {[fn |-> "none", stats |-> st, component_type |-> ct,
                    message |-> NoMessage] :
                     st \in [{"created", "updated", "deleted", "fixed"} -> 0..MaxCount],
                     ct \in {"interfaces", "Interfaces", "Power ports"}}
  /\ sorting = NoSorting
  /\ kind = "interface"
  /\ config = [exclude_interface_type_list |-> {}, compare_description |-> TRUE]
  /\ NoTables
  /\ NoDiff
  /\ NoRecords
  /\ NoIds
  /\ NoFactory
  /\ NoRegistry

\* async_utils.py 171-178
CreateSuccessMessage ==
  /\ summary.fn = "none"
  /\ summary' = [summary EXCEPT
                   !.fn = "create_success_message",
                   !.message = create_success_message(summary.stats,
                                                      summary.component_type)]
  /\ UNCHANGED <<Tables, unified_components, unified_templates, comparison, records,
                 verdict, ids_vars, factory_vars, registry_vars, sorting>>

\* utils.py 190-200
PostComponentsMessage ==
  /\ summary.fn = "none"
  /\ summary' = [summary EXCEPT
                   !.fn = "post_components",
                   !.message = post_components_message(
                                 summary.stats.created, summary.stats.updated,
                                 summary.stats.deleted, summary.stats.fixed,
                                 summary.component_type)]
  /\ UNCHANGED <<Tables, unified_components, unified_templates, comparison, records,
                 verdict, ids_vars, factory_vars, registry_vars, sorting>>

NextMessage == CreateSuccessMessage \/ PostComponentsMessage

SpecMessage == InitMessage /\ [][NextMessage]_vars

\* ------------------------------------------------------------- properties
\* C1: add-missing is idempotent.  When every template name of the device
\* type already exists among the device's components of the kind, the call
\* creates no record and reports that nothing is missing; and the call that
\* directly follows a call which created records creates no further record.
C1_AddMissingIdempotent ==
  last.op = "bulk_add_missing" =>
    LET d == last.device
        template_names == {t.name : t \in get_templates_qs(templates, d, kind)}
        names_before == {c.name : c \in {x \in pre : x.kind = kind /\ x.device = d}}
    IN /\ template_names \subseteq names_before =>
            (last.created = 0 /\ components = pre /\ last.level = "info")
       /\ last.level = "success" =>
            \A reject \in BOOLEAN :
              LET again == handle_bulk_add_missing(components, templates, d, kind,
                                                   nextId, reject)
              IN again.created = 0 /\ again.components = components

C3_SyncAllComposes ==
  (last.op = "bulk_sync_all" /\ last.level # "exception") =>
    LET d == last.device
        a == handle_bulk_add_missing(pre, templates, d, kind,
                                     nextId - last.created, FALSE)
        r == handle_bulk_remove_out_of_sync(a.components, templates, d, kind)
    IN \E reject \in BOOLEAN :
         LET f == handle_bulk_repair_out_of_sync(r.components, templates, d, kind,
                                                 reject)
         IN /\ f.level # "exception"
            /\ components = f.components
            /\ last.created = a.created
            /\ last.deleted = r.deleted
            /\ last.fixed = f.fixed

\* C7: a synchronization request for device D and kind K creates, changes and
\* deletes only components of kind K that belong to D, whether or not D is a
\* member or the master of a virtual chassis.
C7_OnlyOwnComponents ==
  last.entry \in {"view", "mixin"} =>
    /\ \A c \in pre : (c.device # last.device \/ c.kind # kind) => c \in components
    /\ \A c \in components : (c.device # last.device \/ c.kind # kind) => c \in pre

C10_UntypedDeviceRefused ==
  (/\ last.entry \in {"view", "mixin"}
   /\ last.op # "get"
   /\ device_type[last.device] = "None") =>
    (last.level = "error" /\ components = pre)

\* C5: the diff of a list C of device records and a list T of template
\* records has one row per distinct member, under record equality, of the
\* union of C and T; a row is in_sync when T and C both hold a record equal
\* to it, missing_from_device when only T does, missing_from_template when
\* only C does; the aggregate counts are the numbers of rows of each status;
\* and device names {e1, e2} against template names {e2, e10}, attributes
\* alike, give three rows and the counts 1, 1, 1 and name_mismatch 0.
C5_DiffRows ==
  comparison.fn # "none" =>
    LET rows == comparison.comparison_items
        U == Range(unified_templates) \cup Range(unified_components)
        inT(u) == \E t \in Range(unified_templates) : eq(t, u)
        inC(u) == \E c \in Range(unified_components) : eq(c, u)
        shows(i, u) ==
          \/ rows[i].template # <<>> /\ eq(rows[i].template[1], u)
          \/ rows[i].component # <<>> /\ eq(rows[i].component[1], u)
        names(l) == {l[i]["name"] : i \in 1..Len(l)}
        alike == \A u \in U : u["description"] = ""
        statuses == {"in_sync", "missing_from_device", "missing_from_template"}
    IN /\ \A u \in U : Cardinality({i \in 1..Len(rows) : shows(i, u)}) = 1
       /\ \A i \in 1..Len(rows) : \E u \in U : shows(i, u)
       /\ \A i \in 1..Len(rows), u \in U :
            shows(i, u) => /\ (rows[i].template # <<>>) = inT(u)
                           /\ (rows[i].component # <<>>) = inC(u)
       /\ comparison.fn = "get_components" =>
            /\ \A i \in 1..Len(rows) :
                 rows[i].status =
                   IF rows[i].template # <<>> /\ rows[i].component # <<>>
                   THEN "in_sync"
                   ELSE IF rows[i].template # <<>> THEN "missing_from_device"
                   ELSE "missing_from_template"
            /\ \A st \in statuses :
                 comparison.sync_stats[st]
                   = Cardinality({i \in 1..Len(rows) : rows[i].status = st})
            /\ comparison.sync_stats.name_mismatch = 0
       /\ (/\ names(unified_components) = {<<"e", "1">>, <<"e", "2">>}
           /\ names(unified_templates) = {<<"e", "2">>, <<"e", "1", "0">>}
           /\ Len(unified_components) = 2 /\ Len(unified_templates) = 2
           /\ alike) =>
            /\ Len(rows) = 3
            /\ comparison.fn = "get_components" =>
                 comparison.sync_stats =
                   [in_sync |-> 1, name_mismatch |-> 0, missing_from_device |-> 1,
                    missing_from_template |-> 1]

\* get_components has answered for device names {e1, e2} and template names
\* {e2, e10}: e1 is missing from the template, e2 in sync, e10 missing from
\* the device.
C5_Witness ==
  /\ comparison.fn = "get_components"
  /\ {unified_components[i]["name"] : i \in 1..Len(unified_components)}
       = {<<"e", "1">>, <<"e", "2">>}
  /\ {unified_templates[i]["name"] : i \in 1..Len(unified_templates)}
       = {<<"e", "2">>, <<"e", "1", "0">>}
  /\ Len(comparison.comparison_items) = 3
  /\ comparison.comparison_items[1].status = "missing_from_template"
  /\ comparison.comparison_items[2].status = "in_sync"
  /\ comparison.comparison_items[3].status = "missing_from_device"

\* C6: two comparison records of one kind are equal exactly when name, label
\* and the kind's extra comparable attributes match and, with
\* compare_description true, the description too; the identifier and the
\* is_template flag influence neither equality nor hash, and equal records
\* hash alike.
C6_RecordEquality ==
  verdict.fn # "none" =>
    LET x == records[1]
        y == records[2]
        k == x["class"]
        extra ==
          (IF k \in {"devicebay", "modulebay"} THEN {} ELSE {"type"})
          \cup (CASE k = "interface" ->
                       {"enabled", "mgmt_only", "poe_mode", "poe_type", "rf_role"}
                  [] k = "frontport" -> {"color", "rear_port_position"}
                  [] k = "rearport" -> {"color", "positions"}
                  [] k = "powerport" -> {"maximum_draw", "allocated_draw"}
                  [] k = "poweroutlet" -> {"power_port_name", "feed_leg"}
                  [] k = "modulebay" -> {"position"}
                  [] OTHER -> {})
        comparable ==
          {"name", "label"} \cup extra
          \cup (IF config.compare_description THEN {"description"} ELSE {})
        anonymous(r) ==
          [f \in DOMAIN r |-> IF f = "id" THEN 0
                              ELSE IF f = "is_template" THEN FALSE ELSE r[f]]
    IN /\ verdict.eq = (\A f \in comparable : x[f] = y[f])
       /\ verdict.eq = eq(anonymous(x), anonymous(y))
       /\ __hash__(x) = __hash__(anonymous(x))
       /\ __hash__(y) = __hash__(anonymous(y))
       /\ verdict.eq => verdict.hash_eq

\* A device record and a template record with other identifiers compared
\* equal, the description being the one field they differ in besides.
C6_Witness ==
  /\ verdict.fn = "__eq__"
  /\ verdict.eq
  /\ records[1]["description"] # records[2]["description"]
  /\ ~config.compare_description

\* C4: within one run of process_component_comparison the name fixes start
\* only after every scheduled deletions and additions task has finished;
\* the two tasks finish in either order.
C4_NameFixesAfterTasks ==
  /\ \A i \in 1..Len(processor.order) :
       processor.order[i] = "name_fixes" =>
         /\ processor.remove_ids # {} =>
              \E j \in 1..(i - 1) : processor.order[j] = "deletions"
         /\ processor.add_ids # {} =>
              \E j \in 1..(i - 1) : processor.order[j] = "additions"
  /\ processor.pc = "done" =>
       /\ processor.deletions \in {"none", "done"}
       /\ processor.additions \in {"none", "done"}

\* The additions finished before the deletions, and the name fixes ran last.
C4_Witness ==
  processor.order = <<"additions", "deletions", "name_fixes">>

\* C8: no step of the system creates, edits or deletes a component template.
C8_TemplatesReadOnly ==
  [][templates' = templates]_vars

\* A run of the bridge has deleted one component and updated another.
C8_Witness ==
  /\ last.entry = "async"
  /\ processor.pc = "done"
  /\ last.deleted > 0
  /\ last.updated > 0
  /\ templates # {}

\* C11: a bulk action changes the components only for a user who holds the
\* permissions the action requires (add for add-missing, change for repair,
\* delete for remove, all three for sync-all); no request of a user without
\* delete permission deletes a component and none of a user without add
\* permission creates one.
C11_BulkNeedsPermission ==
  LET deleted == {c \in pre : \A x \in components : x.id # c.id}
      created == {c \in components : \A x \in pre : x.id # c.id}
      required ==
        CASE last.op \in {"bulk_add_missing", "bulk_sync_add_missing"} -> {"add"}
          [] last.op \in {"bulk_repair_out_of_sync", "bulk_sync_repair"} -> {"change"}
          [] last.op \in {"bulk_remove_out_of_sync", "bulk_sync_remove"} -> {"delete"}
          [] last.op = "bulk_sync_all" -> {"add", "change", "delete"}
          [] OTHER -> {}
  IN /\ components # pre => required \subseteq user
     /\ (last.entry = "view" /\ required # {} /\ components # pre)
          => last.op \in get_permitted_actions(user)
     /\ deleted # {} => "delete" \in user
     /\ created # {} => "add" \in user

\* A user with the four permissions ran sync-all, which created and deleted.
C11_Witness ==
  /\ last.entry = "view"
  /\ last.op = "bulk_sync_all"
  /\ last.created > 0
  /\ last.deleted > 0
  /\ user = {"view", "add", "change", "delete"}

\* C12: parse_form_ids returns the entries made of digits only, as integers,
\* in the order submitted; filter_valid_ids returns the identifiers that
\* belong to the queryset, in the order given; a single-item POST creates
\* only from submitted templates of the device type's template queryset and
\* deletes only components of the device's component queryset.
C12_IdentifiersValidated ==
  LET all_digits(x) == x # <<>> /\ \A i \in 1..Len(x) : isdigit(x[i])
      kept == SelectSeq(form.raw_values, all_digits)
      ids == [i \in 1..Len(kept) |-> int(kept[i])]
      in_queryset(id) == id \in parsed.valid_ids
      deleted == {c \in pre : \A x \in components : x.id # c.id}
      created == {c \in components : \A x \in pre : x.id # c.id}
  IN /\ parsed.fn = "parse_form_ids" => (parsed.raised = "no" /\ parsed.value = ids)
     /\ parsed.fn = "filter_valid_ids" => parsed.value = SelectSeq(ids, in_queryset)
     /\ last.op = "single" =>
          /\ last.level # "exception" \/ last.message # "ValueError"
          /\ deleted \subseteq get_components_qs(pre, last.device, kind)
          /\ \A c \in created :
               \E t \in get_templates_qs(templates, last.device, kind) :
                 t.name = c.name /\ t.id \in Range(ids)

\* C13: for every kind and every host record, the factory built from the
\* registry entry, ComponentFactory.create_comparison_object and the view's
\* _factory each build a comparison record, and the three records compare
\* equal to one another.
C13_FactoriesAgree ==
  \A a, b \in {built.registry, built.component_factory, built.view} :
    (a # NotBuilt /\ b # NotBuilt) =>
      /\ a.raised = "no"
      /\ b.raised = "no"
      /\ eq(a.record, b.record)

\* C14: the registry holds for each of the nine built-in kinds, at every
\* moment, the configuration it held at process start, with a label, a
\* model, a template model, a field list with id and name, and the view, add,
\* change and delete permissions.
C14_BuiltInEntriesKept ==
  \A k \in ComparisonKinds :
    /\ k \in DOMAIN COMPONENT_REGISTRY
    /\ COMPONENT_REGISTRY[k] = ComponentConfig(k)
    /\ COMPONENT_REGISTRY[k].component_label # ""
    /\ COMPONENT_REGISTRY[k].model # "None"
    /\ COMPONENT_REGISTRY[k].template_model # "None"
    /\ {"id", "name"} \subseteq Range(COMPONENT_REGISTRY[k].factory_fields)
    /\ Range(COMPONENT_REGISTRY[k].permissions) =
         {"dcim." \o a \o "_" \o k : a \in {"view", "add", "change", "delete"}}

\* A discovery pass reported the kind interface and the registry merged it.
C14_Witness ==
  /\ answer.op = "get_all_component_types"
  /\ answer.introspected
  /\ "interface" \in answer.discovered

\* C15: get_component_config of a name that neither the static table nor the
\* discovered map holds raises ValueError, and whatever the name, a call
\* that returns gives a whole configuration; with discovery enabled,
\* disabled or failing.
C15_UnknownKindRaises ==
  answer.op = "get_component_config" =>
    /\ (/\ answer.component_type \notin ComparisonKinds
        /\ answer.component_type \notin DOMAIN _discovery._discovered_components)
         => answer.raised = "ValueError"
    /\ answer.raised = "no" =>
         /\ answer.value # None
         /\ DOMAIN answer.value = DOMAIN ComponentConfig("interface")
         /\ \A f \in {"component_label", "model", "template_model", "comparison_class"} :
              answer.value[f] \notin {"None", ""}
         /\ answer.value.factory_fields # <<>>
         /\ answer.value.permissions # <<>>

\* The lookup of an unknown name during which the discovery failed.
C15_Witness ==
  /\ answer.op = "get_component_config"
  /\ answer.component_type = "widgetbay"
  /\ answer.failure = "Exception"
  /\ answer.raised = "ValueError"
  /\ answer.value = None

\* C16: a kind that exclude_auto_discovery_types names (in any case) when
\* discover_components is called is not in the map the call returns.
C16_ExcludedKindAbsent ==
  answer.op = "discover_components" =>
    \A e \in answer.excluded : lower(e) \notin answer.discovered

\* C17: a call of discover_components made while enable_auto_discovery is
\* false introspects nothing and returns an empty map.
C17_DisabledReturnsEmpty ==
  (answer.op = "discover_components" /\ ~answer.enabled) =>
    /\ ~answer.introspected
    /\ answer.discovered = {}

\* C18: no failure of the discovery leaves get_component_config or
\* get_all_component_types: the lookup of a built-in kind returns its static
\* configuration and the enumeration lists the nine built-in names.
C18_DiscoveryFailureContained ==
  /\ answer.op = "get_component_config" =>
       IF answer.component_type \in ComparisonKinds
       THEN /\ answer.raised = "no"
            /\ answer.value = ComponentConfig(answer.component_type)
       ELSE answer.raised \in {"no", "ValueError"}
  /\ answer.op = "get_all_component_types" =>
       /\ answer.raised = "no"
       /\ ComparisonKinds \subseteq answer.value

\* The enumeration during which get_models() raised.
C18_Witness ==
  /\ answer.op = "get_all_component_types"
  /\ answer.failure = "Exception"
  /\ answer.raised = "no"

\* C19: at most one discovery pass completes in a process, and a call of
\* discover_components made after the first pass completed introspects
\* nothing and returns the map of that pass.
C19_PopulatedOnce ==
  /\ trace.passes <= 1
  /\ (answer.op = "discover_components" /\ answer.completed) =>
       /\ ~answer.introspected
       /\ answer.raised = "no"
       /\ answer.value = trace.first

\* C20: at most one thread is inside a discovery pass, and a call of
\* discover_components that begins while a pass is executing returns an empty
\* map and introspects nothing.
C20_OnePassAtATime ==
  /\ Cardinality({t \in Callers : callers[t].pc \in {"introspect", "store"}}) <= 1
  /\ (answer.op = "discover_components" /\ answer.running) =>
       /\ ~answer.introspected
       /\ answer.discovered = {}

\* C23: handle_bulk_repair_out_of_sync renames only components whose name is
\* the name of no template of the device type, each to the name of a template
\* of the same type and another name; a component that carries a template's
\* name keeps its name, and the reported count is the number of renamed
\* components.
C23_RepairRenamesOnlyOutOfSync ==
  (last.entry = "view" /\ last.op = "bulk_repair_out_of_sync"
     /\ last.level # "exception") =>
    LET tq == get_templates_qs(templates, last.device, kind)
        renamed == {c \in pre : \E x \in components : x.id = c.id /\ x.name # c.name}
    IN /\ \A c \in renamed :
            /\ c.name \notin {t.name : t \in tq}
            /\ \E t \in tq, x \in components :
                  x.id = c.id /\ x.name = t.name /\ t.type = c.type /\ t.name # c.name
       /\ last.fixed = Cardinality(renamed)

\* C24: in a single-item request a component whose id is submitted for
\* removal and for fix-name is not a component of the device afterwards.
C24_FixNameSparesDeleted ==
  (last.op = "single" /\ last.entry = "view") =>
    \A c \in pre :
      (c.id \in last.selected.remove /\ c.id \in last.selected.fix /\ last.deleted > 0)
        => \A x \in components : x.id # c.id

C25_AdditionsPersistAndCount ==
  (processor.additions = "done" /\ processor.remove_ids = {}) =>
    LET d == processor.device
        selected == {t \in templates : t.kind = kind /\ t.id \in processor.add_ids}
        names == {c.name : c \in get_components_qs(pre, d, kind)}
        new == {t \in selected : t.name \notin names}
        added == {x \in components : \A c \in pre : c.id # x.id}
    IN /\ \A t \in new :
            \E x \in added : /\ x.kind = kind /\ x.device = d
                             /\ x.name = t.name /\ x.type = t.type
       /\ processor.stats.created = Cardinality(new)
       /\ processor.stats.created = Cardinality(added)
       /\ processor.stats.updated = Cardinality(selected \ new)

C27_SyncAllLeavesInSync ==
  (last.entry = "view" /\ last.op = "bulk_sync_all"
     /\ last.level \in {"success", "info"}) =>
    LET d == last.device
    IN /\ {c.name : c \in get_components_qs(components, d, kind)}
            = {t.name : t \in get_templates_qs(templates, d, kind)}
       /\ \A diff \in diff_of(components, templates, d, kind) :
            \A i \in 1..Len(diff.comparison_items) :
              diff.comparison_items[i].status = "in_sync"

\* C28: every row of the diff get_components computes has one of the
\* statuses in_sync, missing_from_device and missing_from_template, decided
\* by the sides the row has; a row with both sides holds two equal records
\* of one name, so name_mismatch and unknown are given to no row; and the
\* four counts add up to the number of rows.
C28_ThreeStatusesOnly ==
  comparison.fn = "get_components" =>
    LET rows == comparison.comparison_items
        stats == comparison.sync_stats
    IN /\ \A i \in 1..Len(rows) :
            LET t == rows[i].template
                c == rows[i].component
            IN /\ rows[i].status
                    \in {"in_sync", "missing_from_device", "missing_from_template"}
               /\ rows[i].status = "in_sync" <=> (t # <<>> /\ c # <<>>)
               /\ rows[i].status = "missing_from_device" <=> (t # <<>> /\ c = <<>>)
               /\ rows[i].status = "missing_from_template" <=> (t = <<>> /\ c # <<>>)
               /\ (t # <<>> /\ c # <<>>) =>
                    (eq(t[1], c[1]) /\ t[1]["name"] = c[1]["name"])
       /\ stats.name_mismatch = 0
       /\ stats.in_sync + stats.name_mismatch + stats.missing_from_device
            + stats.missing_from_template = Len(rows)

\* A diff with a row of each of the three statuses.
C28_Witness ==
  /\ comparison.fn = "get_components"
  /\ \A st \in {"in_sync", "missing_from_device", "missing_from_template"} :
        \E i \in 1..Len(comparison.comparison_items) :
          comparison.comparison_items[i].status = st
  /\ Len(comparison.comparison_items) = 3

SmallerInOneRun(a, b, digits) ==
  \E n \in 0..Len(a), k \in 1..Len(a), m \in 1..Len(b) :
    /\ n + k <= Len(a)
    /\ n + m <= Len(b)
    /\ n <= Len(b)
    /\ SubSeq(a, 1, n) = SubSeq(b, 1, n)
    /\ SubSeq(a, n + k + 1, Len(a)) = SubSeq(b, n + m + 1, Len(b))
    /\ \A i \in (n + 1)..(n + k) : isdigit(a[i]) = digits
    /\ \A i \in (n + 1)..(n + m) : isdigit(b[i]) = digits
    /\ n > 0 => isdigit(a[n]) # digits
    /\ n + k < Len(a) => isdigit(a[n + k + 1]) # digits
    /\ IF digits
       THEN int(SubSeq(a, n + 1, n + k)) < int(SubSeq(b, n + 1, n + m))
       ELSE str_lt(SubSeq(a, n + 1, n + k), SubSeq(b, n + 1, n + m))

\* C22: human_sorted returns the names it was given, ordered so that of two
\* names that differ only in one run of digits the one with the smaller
\* number comes first, and of two names that differ only in one run of
\* non-digits the one with the smaller text comes first;
\* ["Gi1/10", "Gi1/2", "Gi1/1"] becomes ["Gi1/1", "Gi1/2", "Gi1/10"].
C22_NaturalOrder ==
  sorting.fn = "human_sorted" =>
    LET l == sorting.iterable
        r == sorting.value
    IN /\ Len(r) = Len(l)
       /\ \A x \in SortNames :
            Cardinality({i \in 1..Len(r) : r[i] = x})
              = Cardinality({i \in 1..Len(l) : l[i] = x})
       /\ \A i, j \in 1..Len(r) :
            i < j => /\ ~SmallerInOneRun(r[j], r[i], TRUE)
                     /\ ~SmallerInOneRun(r[j], r[i], FALSE)
       /\ l = << <<"G", "i", "1", "/", "1", "0">>, <<"G", "i", "1", "/", "2">>,
                 <<"G", "i", "1", "/", "1">> >>
            => r = << <<"G", "i", "1", "/", "1">>, <<"G", "i", "1", "/", "2">>,
                      <<"G", "i", "1", "/", "1", "0">> >>

\* ["Gi1/10", "Gi1/2", "Gi1/1"] was sorted to ["Gi1/1", "Gi1/2", "Gi1/10"].
C22_Witness ==
  /\ sorting.fn = "human_sorted"
  /\ sorting.iterable = << <<"G", "i", "1", "/", "1", "0">>, <<"G", "i", "1", "/", "2">>,
                           <<"G", "i", "1", "/", "1">> >>
  /\ sorting.value = << <<"G", "i", "1", "/", "1">>, <<"G", "i", "1", "/", "2">>,
                        <<"G", "i", "1", "/", "1", "0">> >>

\* C21: the summary message of a single-item operation has, for each of the
\* counters created, updated, deleted and fixed that is above zero, one
\* clause of that operation with the counter's value and the kind, has no
\* clause for a counter that is zero, and is "No changes made to <kind>"
\* when the four counters are zero.  Upper and lower case are not told apart
\* in the clauses.
C21_SummaryMessage ==
  summary.fn # "none" =>
    LET m == summary.message
        st == summary.stats
        of(op) == {i \in 1..Len(m.clauses) : str_lower(m.clauses[i].operation) = op}
    IN /\ \A op \in DOMAIN st :
            IF st[op] > 0
            THEN /\ Cardinality(of(op)) = 1
                 /\ \A i \in of(op) :
                      /\ m.clauses[i].count = st[op]
                      /\ str_lower(m.clauses[i].component_type)
                           = str_lower(summary.component_type)
            ELSE of(op) = {}
       /\ (\A op \in DOMAIN st : st[op] = 0)
            => m = [clauses |-> <<>>, fallback |-> <<summary.component_type>>]
       /\ (\E op \in DOMAIN st : st[op] > 0) => m.fallback = <<>>
====
